---- MODULE Spec2Model ----
(***************************************************************************)
(* A model of aws-ec2-runtime-checker: the checker package (buildFilters,  *)
(* matchesTarget, checkInstanceRuntime, RunCheck and its three phases),    *)
(* config.Load, the cron-mode scheduler and the leader-election callbacks  *)
(* of main.                                                                *)
(*                                                                         *)
(* Eight specifications share the variables:                               *)
(*   SpecPure   the pure functions applied to drawn policy lists and       *)
(*              instances;                                                 *)
(*   SpecMatch  matchesTarget applied to one drawn policy and instance;    *)
(*   Spec       one process in single-run mode, RunCheck step by step;     *)
(*   SpecLive   Spec with the steps of its goroutine taken when they can;  *)
(*   SpecSched  cron mode, with or without leader election, replicas,      *)
(*              ticks of the schedule, loss of the lease and cancellation; *)
(*   SpecCron   cron mode without the election, each goroutine going on    *)
(*              when it can;                                               *)
(*   SpecLoad   main from config.Load, on a drawn environment and          *)
(*              configuration file, through the single run;                *)
(*   SpecTwin   two single-run processes with one configuration and fleet. *)
(***************************************************************************)
EXTENDS Integers, Sequences, FiniteSets, TLC

VARIABLES
    cfg,        \* config.Config (Targets, VpcID, DryRun, SNSTopicArn,
                \* LeaderElectionEnabled) and cron: whether os.Args asks for cron mode
    environ,    \* SpecLoad: the environment variables and the configuration file that
                \* config.Load reads
    inst,       \* SpecPure, SpecMatch: the instance handed to the pure functions
    filters,    \* SpecPure: the result of buildFilters
    verdict,    \* SpecPure: the result of checkInstanceRuntime; SpecMatch: of matchesTarget
    pstage,     \* SpecPure: "input", "filtered", "checked"; SpecMatch: "input", "matched"
    fleetState, \* the provider's lifecycle state of each instance of the fleet
    runs,       \* one RunCheck activation per (replica, goroutine slot)
    proc,       \* each replica's process: where its main goroutine stands
    sched,      \* each replica's place in runSimpleScheduler
    lease,      \* the election lease: its holder (0: free)
    cancelled,  \* per replica: the signal context of its process is done (a process
                \* that has ended has no context)
    skipped,    \* running replicas that saw a tick of the schedule while not holding
                \* the lease
    interrupted, \* replicas whose process ended while a RunCheck of theirs was running
    publishFailed, \* running processes, not cancelled, in which a Publish call has
                \* returned an error
    retrievalFailed \* running processes, not cancelled, in which a page of a retrieval
                \* has failed

vars == <<cfg, environ, inst, filters, verdict, pstage, fleetState, runs, proc, sched,
          lease, cancelled, skipped, interrupted, publishFailed, retrievalFailed>>

pureVars == <<inst, filters, verdict, pstage>>
schedVars ==
    <<proc, sched, lease, cancelled, skipped, interrupted, publishFailed, retrievalFailed>>

----------------------------------------------------------------------------
(* Bounds of the model.                                                    *)

\* policies in a drawn policy list (SpecPure)
MaxTargets == 2
\* instances of the fleet the provider holds (Spec, SpecSched)
NumInstances == 4
\* reservations the provider returns per page
PageSize == 1
\* replicas of the deployment when leader election is enabled
NumReplicas == 2
\* gocron job goroutines that can be alive in one process at a time
MaxJobs == 1
\* nanoseconds past a whole hour an instance's runtime can have
MaxNs == 2

----------------------------------------------------------------------------
(* Strings. Go strings are opaque here except where the code looks inside  *)
(* one: the Name pattern and the Name tag, whose bytes Chars gives.        *)

Chars(s) ==
    CASE s = "" -> <<>>
      [] s = "dev-*" -> <<"d", "e", "v", "-", "*">>
      [] s = "dev-1" -> <<"d", "e", "v", "-", "1">>
      [] s = "prod-1" -> <<"p", "r", "o", "d", "-", "1">>
      [] s = "*" -> <<"*">>
      [] s = "dev-?" -> <<"d", "e", "v", "-", "?">>
      [] s = "dev-[0-9]" -> <<"d", "e", "v", "-", "[", "0", "-", "9", "]">>
      [] s = "dev-[^0-9]" -> <<"d", "e", "v", "-", "[", "^", "0", "-", "9", "]">>
      [] s = "dev-\\*" -> <<"d", "e", "v", "-", "\\", "*">>
      [] s = "[" -> <<"[">>
      [] s = "a/b" -> <<"a", "/", "b">>
      [] s = "dev-a" -> <<"d", "e", "v", "-", "a">>

Separator == "/"

\* the byte order of the characters the model's strings are made of
Ord(c) ==
    CASE c = "*" -> 42 [] c = "-" -> 45 [] c = "/" -> 47 [] c = "0" -> 48
      [] c = "1" -> 49 [] c = "9" -> 57 [] c = "?" -> 63 [] c = "[" -> 91
      [] c = "\\" -> 92 [] c = "]" -> 93 [] c = "^" -> 94 [] c = "a" -> 97
      [] c = "b" -> 98 [] c = "d" -> 100 [] c = "e" -> 101 [] c = "o" -> 111
      [] c = "p" -> 112 [] c = "r" -> 114 [] c = "v" -> 118

BadEsc == [bad |-> TRUE, r |-> "", next |-> 0]

\* getEsc of path/filepath: one character of a class at p[k], `\`-escaped or not;
\* bad when the pattern ends there or right after it, or on a bare `-` or `]`
getEsc(p, k) ==
    IF k > Len(p) \/ p[k] \in {"-", "]"} THEN BadEsc
    ELSE LET k2 == IF p[k] = "\\" THEN k + 1 ELSE k
         IN  IF k2 + 1 > Len(p) THEN BadEsc
             ELSE [bad |-> FALSE, r |-> p[k2], next |-> k2 + 1]

\* The ranges of a character class from p[k] to its closing `]`, against the
\* character c: whether the class is malformed, where the pattern goes on, and whether
\* a range holds c.
RECURSIVE ClassScan(_, _, _, _, _)
ClassScan(p, k, c, nrange, match) ==
    IF k <= Len(p) /\ p[k] = "]" /\ nrange > 0
    THEN [bad |-> FALSE, next |-> k + 1, match |-> match]
    ELSE LET lo == getEsc(p, k)
         IN  IF lo.bad THEN [bad |-> TRUE, next |-> 0, match |-> FALSE]
             ELSE IF p[lo.next] = "-"
             THEN LET hi == getEsc(p, lo.next + 1)
                  IN  IF hi.bad THEN [bad |-> TRUE, next |-> 0, match |-> FALSE]
                      ELSE ClassScan(p, hi.next, c, nrange + 1,
                                     match \/ (Ord(lo.r) <= Ord(c) /\ Ord(c) <= Ord(hi.r)))
             ELSE ClassScan(p, lo.next, c, nrange + 1, match \/ c = lo.r)

\* filepath.Match, its matched result: `*` is any run of non-Separator characters, `?`
\* one non-Separator character, `[...]` one character of a class (`[^...]`: not of
\* it), `\c` the character c, anything else itself. A malformed pattern (a trailing
\* `\`, an unclosed class) gives ErrBadPattern wherever the match gets to it, and does
\* not match.
RECURSIVE MatchFrom(_, _, _, _)
MatchFrom(p, i, n, j) ==
    IF i > Len(p) THEN j > Len(n)
    ELSE IF p[i] = "*" THEN
        \/ MatchFrom(p, i + 1, n, j)
        \/ /\ j <= Len(n)
           /\ n[j] # Separator
           /\ MatchFrom(p, i, n, j + 1)
    ELSE IF p[i] = "?" THEN
        /\ j <= Len(n)
        /\ n[j] # Separator
        /\ MatchFrom(p, i + 1, n, j + 1)
    ELSE IF p[i] = "[" THEN
        /\ j <= Len(n)
        /\ LET negated == i + 1 <= Len(p) /\ p[i + 1] = "^"
               class == ClassScan(p, IF negated THEN i + 2 ELSE i + 1, n[j], 0, FALSE)
           IN  /\ ~class.bad
               /\ class.match # negated
               /\ MatchFrom(p, class.next, n, j + 1)
    ELSE IF p[i] = "\\" THEN
        /\ i + 1 <= Len(p)
        /\ j <= Len(n)
        /\ n[j] = p[i + 1]
        /\ MatchFrom(p, i + 2, n, j + 1)
    ELSE
        /\ j <= Len(n)
        /\ n[j] = p[i]
        /\ MatchFrom(p, i + 1, n, j + 1)

Match(pattern, name) == MatchFrom(Chars(pattern), 1, Chars(name), 1)

Range(s) == {s[i] : i \in 1..Len(s)}

\* instanceTags[key] of a Go map: the zero value "" for an absent key
MapGet(m, k) == IF k \in DOMAIN m THEN m[k] ELSE ""

NoTags == [k \in {} |-> ""]

----------------------------------------------------------------------------
(* time.Duration and Duration.Hours().                                     *)
(* A runtime is h whole hours and ns nanoseconds (ns < one hour). Hours()  *)
(* is float64(h) + float64(ns)/(60*60*1e9), rounded to float64 (53-bit     *)
(* mantissa, round to nearest even). Thresholds are whole hours.           *)

\* 60*60*1e9 = 2^13 * NsPerHourOdd
NsPerHourOdd == 439453125

RECURSIVE Pow2(_)
Pow2(k) == IF k <= 0 THEN 1 ELSE 2 * Pow2(k - 1)

\* floor(log2 m), m >= 1
RECURSIVE Log2(_)
Log2(m) == IF m <= 1 THEN 0 ELSE 1 + Log2(m \div 2)

Min(a, b) == IF a <= b THEN a ELSE b

\* Whether float64(m) + float64(ns)/3.6e12 rounds to a float64 above m, for a whole
\* m >= 0 and 0 <= ns < 3.6e12: the fraction must exceed half the spacing
\* 2^(e-52) of the float64s in [2^e, 2^(e+1)), e = floor(log2 m), that is
\* ns * 2^(40-e) > NsPerHourOdd (no tie: NsPerHourOdd is odd). 2^30 > NsPerHourOdd
\* caps the power.
RoundsAbove(m, ns) ==
    IF m = 0 THEN ns > 0
    ELSE ns > NsPerHourOdd \div Pow2(Min(40 - Log2(m), 30))

\* the comparison of a checkInstanceRuntime that takes a threshold of zero or less
\* for a policy that is switched off
HoursExceedIfPositive(runtime, max) ==
    /\ max > 0
    /\ \/ runtime.h > max
       \/ /\ runtime.h = max
          /\ RoundsAbove(max, runtime.ns)

\* runtime.Hours() > target.MaxRuntimeHours
HoursExceed(runtime, max) ==
    \/ runtime.h > max
    \/ /\ runtime.h = max
       /\ RoundsAbove(max, runtime.ns)

----------------------------------------------------------------------------
(* The checker's pure functions.                                           *)

\* getInstanceName: the value of the Name tag, "" without one
getInstanceName(instance) == MapGet(instance.tags, "Name")

\* matchesTarget that applies the Name pattern even when it is empty
matchesTargetNameAlways(instance, target) ==
    IF target.InstanceType # "" /\ instance.type # target.InstanceType THEN FALSE
    ELSE IF ~Match(target.Name, getInstanceName(instance)) THEN FALSE
    ELSE IF /\ DOMAIN target.Tags # {}
            /\ \E key \in DOMAIN target.Tags :
                   MapGet(instance.tags, key) # target.Tags[key]
    THEN FALSE
    ELSE TRUE

matchesTarget(instance, target) ==
    IF target.InstanceType # "" /\ instance.type # target.InstanceType THEN FALSE
    ELSE IF target.Name # "" /\ ~Match(target.Name, getInstanceName(instance))
    THEN FALSE
    ELSE IF /\ DOMAIN target.Tags # {}
            /\ \E key \in DOMAIN target.Tags :
                   MapGet(instance.tags, key) # target.Tags[key]
    THEN FALSE
    ELSE TRUE

\* The loop of checkInstanceRuntime from policy i on: "flagged" (the instance is
\* returned), "nil", or "panic" (*instance.LaunchTime of a nil pointer).
RECURSIVE checkLoop(_, _, _)
checkLoop(instance, Targets, i) ==
    IF i > Len(Targets) THEN "nil"
    ELSE IF ~matchesTarget(instance, Targets[i]) THEN checkLoop(instance, Targets, i + 1)
    ELSE IF ~instance.hasLaunch THEN "panic"
    ELSE IF HoursExceed(instance.runtime, Targets[i].MaxRuntimeHours) THEN "flagged"
    ELSE "nil"

\* the loop without its break: a later matching policy is still consulted
RECURSIVE checkLoopNoBreak(_, _, _)
checkLoopNoBreak(instance, Targets, i) ==
    IF i > Len(Targets) THEN "nil"
    ELSE IF ~matchesTarget(instance, Targets[i])
    THEN checkLoopNoBreak(instance, Targets, i + 1)
    ELSE IF ~instance.hasLaunch THEN "panic"
    ELSE IF HoursExceed(instance.runtime, Targets[i].MaxRuntimeHours) THEN "flagged"
    ELSE checkLoopNoBreak(instance, Targets, i + 1)

checkInstanceRuntimeNoBreak(instance, Targets) == checkLoopNoBreak(instance, Targets, 1)

\* checkInstanceRuntime that compares the runtime with every policy's threshold without
\* asking whether the policy matches
checkInstanceRuntimeNoMatch(instance, Targets) ==
    IF Targets = <<>> THEN "nil"
    ELSE IF ~instance.hasLaunch THEN "panic"
    ELSE IF \E i \in 1..Len(Targets) :
                HoursExceed(instance.runtime, Targets[i].MaxRuntimeHours)
    THEN "flagged"
    ELSE "nil"

checkInstanceRuntime(instance, Targets) == checkLoop(instance, Targets, 1)

\* The tag keys of the policy set, in one of the orders a Go map iteration can take.
TagKeys(Targets) == UNION {DOMAIN Targets[i].Tags : i \in 1..Len(Targets)}

Orders(S) == {s \in [1..Cardinality(S) -> S] : Range(s) = S}

\* instanceTypes: the non-empty InstanceType of each policy, in policy order
instanceTypes(Targets) ==
    SelectSeq([i \in 1..Len(Targets) |-> Targets[i].InstanceType], LAMBDA t : t # "")

\* tagFilters[tagKey] that keeps the value of the first policy naming the key only
tagValuesFirstOnly(Targets, key) ==
    LET with == SelectSeq(Targets, LAMBDA t : key \in DOMAIN t.Tags)
    IN  <<with[1].Tags[key]>>

\* tagFilters[tagKey]: the value each policy requires for key, in policy order
tagValues(Targets, key) ==
    LET with == SelectSeq(Targets, LAMBDA t : key \in DOMAIN t.Tags)
    IN  [i \in 1..Len(with) |-> with[i].Tags[key]]

\* buildFilters without the clause on the lifecycle state
buildFiltersNoState(c, keyOrder) ==
    (IF Len(instanceTypes(c.Targets)) > 0
     THEN <<[Name |-> <<"instance-type">>, Values |-> instanceTypes(c.Targets)]>>
     ELSE <<>>)
    \o (IF c.VpcID # ""
        THEN <<[Name |-> <<"vpc-id">>, Values |-> <<c.VpcID>>]>>
        ELSE <<>>)
    \o [i \in 1..Len(keyOrder) |->
           [Name |-> <<"tag", keyOrder[i]>>, Values |-> tagValues(c.Targets, keyOrder[i])]]

\* buildFilters that leaves the VPC out
buildFiltersNoVpc(c, keyOrder) ==
    <<[Name |-> <<"instance-state-name">>, Values |-> <<"running">>]>>
    \o (IF Len(instanceTypes(c.Targets)) > 0
        THEN <<[Name |-> <<"instance-type">>, Values |-> instanceTypes(c.Targets)]>>
        ELSE <<>>)
    \o [i \in 1..Len(keyOrder) |->
           [Name |-> <<"tag", keyOrder[i]>>, Values |-> tagValues(c.Targets, keyOrder[i])]]

\* buildFilters that leaves its loop over tagFilters after the first key
buildFiltersFirstTagOnly(c, keyOrder) ==
    <<[Name |-> <<"instance-state-name">>, Values |-> <<"running">>]>>
    \o (IF Len(instanceTypes(c.Targets)) > 0
        THEN <<[Name |-> <<"instance-type">>, Values |-> instanceTypes(c.Targets)]>>
        ELSE <<>>)
    \o (IF c.VpcID # ""
        THEN <<[Name |-> <<"vpc-id">>, Values |-> <<c.VpcID>>]>>
        ELSE <<>>)
    \o (IF Len(keyOrder) > 0
        THEN <<[Name |-> <<"tag", keyOrder[1]>>,
                Values |-> tagValues(c.Targets, keyOrder[1])]>>
        ELSE <<>>)

\* buildFilters. A clause's Name is <<"tag", key>> for "tag:<key>". keyOrder is the
\* order in which `range tagFilters` yields the keys.
buildFilters(c, keyOrder) ==
    <<[Name |-> <<"instance-state-name">>, Values |-> <<"running">>]>>
    \o (IF Len(instanceTypes(c.Targets)) > 0
        THEN <<[Name |-> <<"instance-type">>, Values |-> instanceTypes(c.Targets)]>>
        ELSE <<>>)
    \o (IF c.VpcID # ""
        THEN <<[Name |-> <<"vpc-id">>, Values |-> <<c.VpcID>>]>>
        ELSE <<>>)
    \o [i \in 1..Len(keyOrder) |->
           [Name |-> <<"tag", keyOrder[i]>>, Values |-> tagValues(c.Targets, keyOrder[i])]]

\* EC2 DescribeInstances filter semantics: an instance is returned when, for every
\* clause, its attribute is one of the clause's values.
ClauseHolds(instance, state, f) ==
    CASE f.Name[1] = "instance-state-name" -> state \in Range(f.Values)
      [] f.Name[1] = "instance-type" -> instance.type \in Range(f.Values)
      [] f.Name[1] = "vpc-id" -> instance.vpc \in Range(f.Values)
      [] f.Name[1] = "tag" ->
            /\ f.Name[2] \in DOMAIN instance.tags
            /\ instance.tags[f.Name[2]] \in Range(f.Values)

SatisfiesFilters(instance, state, fs) ==
    \A i \in 1..Len(fs) : ClauseHolds(instance, state, fs[i])

----------------------------------------------------------------------------
(* The inputs SpecPure draws.                                              *)

Tags1(k, v) == [x \in {k} |-> v]
Tags2(k1, v1, k2, v2) == [x \in {k1, k2} |-> IF x = k1 THEN v1 ELSE v2]

DevTeam == Tags2("Environment", "dev", "Team", "backend")

AllTags ==
    [x \in {"Name", "Environment", "Team"} |->
        CASE x = "Name" -> "dev-1" [] x = "Environment" -> "dev" [] x = "Team" -> "backend"]

Selector(ty, nm, tg) == [InstanceType |-> ty, Name |-> nm, Tags |-> tg]

\* a policy's selector fields
Selectors ==
    {Selector("", "", NoTags),
     Selector("t2.micro", "", NoTags),
     Selector("", "dev-*", NoTags),
     Selector("", "", Tags1("Environment", "dev")),
     Selector("", "", DevTeam),
     Selector("t2.micro", "dev-*", Tags1("Environment", "dev")),
     Selector("m5.large", "", Tags1("Environment", "prod"))}

Thresholds == {24, 4096}

PolicyUniverse ==
    {[InstanceType |-> s.InstanceType, Name |-> s.Name, Tags |-> s.Tags,
      MaxRuntimeHours |-> m] : s \in Selectors, m \in Thresholds}

SeqsUpTo(S, n) == UNION {[1..k -> S] : k \in 0..n}

InstanceTagSets ==
    {NoTags,
     AllTags,
     Tags2("Name", "prod-1", "Environment", "dev"),
     Tags2("Environment", "prod", "Team", "backend")}

Runtimes == {[h |-> h, ns |-> ns] : h \in Thresholds, ns \in 0..MaxNs}

InstanceUniverse ==
    {[id |-> 1, type |-> ty, vpc |-> "vpc-1", tags |-> tg, hasLaunch |-> TRUE, runtime |-> rt] :
        ty \in {"t2.micro", "m5.large"}, tg \in InstanceTagSets, rt \in Runtimes}
    \cup
    {[id |-> 1, type |-> ty, vpc |-> "vpc-1", tags |-> tg, hasLaunch |-> FALSE,
      runtime |-> [h |-> 0, ns |-> 0]] :
        ty \in {"t2.micro", "m5.large"}, tg \in InstanceTagSets}

----------------------------------------------------------------------------
(* The fleet the provider holds, and DescribeInstances over it.            *)

Replicas == 1..NumReplicas
Slots == 0..MaxJobs

FleetInstance(i) ==
    [id |-> i,
     type |-> IF i % 2 = 1 THEN "t2.micro" ELSE "m5.large",
     vpc |-> IF i = 4 THEN "vpc-2" ELSE "vpc-1",
     tags |-> IF i % 2 = 1 THEN Tags2("Name", "dev-1", "Environment", "dev")
              ELSE Tags1("Name", "prod-1"),
     hasLaunch |-> TRUE,
     runtime |-> [h |-> IF i \in {1, 2, 4} THEN 30 ELSE 12, ns |-> 0]]

NumReservations == (NumInstances + 1) \div 2

Reservation(k) ==
    <<FleetInstance(2 * k - 1)>>
    \o (IF 2 * k <= NumInstances THEN <<FleetInstance(2 * k)>> ELSE <<>>)

NumPages == (NumReservations + PageSize - 1) \div PageSize

\* Page p of a DescribeInstances listing under filters fs: the reservations of the page,
\* each with its instances that satisfy every clause.
DescribeInstances(fs, p, state) ==
    [j \in 1..(Min(p * PageSize, NumReservations) - (p - 1) * PageSize) |->
        SelectSeq(Reservation((p - 1) * PageSize + j),
                  LAMBDA x : SatisfiesFilters(x, state[x.id], fs))]

RECURSIVE Flatten(_)
Flatten(ss) == IF ss = <<>> THEN <<>> ELSE Head(ss) \o Flatten(Tail(ss))

----------------------------------------------------------------------------
(* RunCheck, one activation per goroutine that calls it.                   *)
(* pc: "idle", "describe" (in the paginator loop), "process" (in the loop  *)
(* of processInstances), "notify" (before sendNotification), "done",       *)
(* "panic".                                                                *)

IdleRun ==
    [pc |-> "idle", filters |-> <<>>, page |-> 0, found |-> <<>>, idx |-> 0,
     message |-> <<>>, calls |-> <<>>, published |-> <<>>, collected |-> 0,
     aborted |-> FALSE]

\* RunCheck is entered: findLongRunningInstances builds the filters and the paginator
enterRunCheck(c, keyOrder) ==
    [IdleRun EXCEPT !.pc = "describe", !.filters = buildFilters(c, keyOrder), !.page = 1]

Call(op, arg, ok) == [op |-> op, arg |-> arg, ok |-> ok]

\* RunCheck without its early return on an empty list
afterFindNoShortCircuit(run, found) ==
    IF Len(found) = 0
    THEN [run EXCEPT !.pc = "notify", !.found = found, !.idx = 1,
                     !.message = <<<<"header", 0>>>>]
    ELSE [run EXCEPT !.pc = "process", !.found = found, !.idx = 1,
                     !.message = <<<<"header", Len(found)>>>>]

\* RunCheck once findLongRunningInstances has returned `found`
afterFind(run, found) ==
    IF Len(found) = 0
    THEN [run EXCEPT !.pc = "done", !.found = found]
    ELSE [run EXCEPT !.pc = "process", !.found = found, !.idx = 1,
                     !.message = <<<<"header", Len(found)>>>>]

\* a failed page keeps what the earlier pages gave
findLongRunningInstancesPartial(run, ok, state, c) ==
    LET page == Flatten(DescribeInstances(run.filters, run.page, state))
        flagged == SelectSeq(page, LAMBDA x : checkInstanceRuntime(x, c.Targets) = "flagged")
        called == [run EXCEPT !.calls = Append(@, Call("DescribeInstances", run.page, ok))]
    IN  IF ~ok THEN afterFind([called EXCEPT !.aborted = TRUE], run.found)
        ELSE IF run.page < NumPages
        THEN [called EXCEPT !.page = @ + 1, !.found = @ \o flagged,
                            !.collected = @ + Len(flagged)]
        ELSE afterFind([called EXCEPT !.collected = @ + Len(flagged)], run.found \o flagged)

\* findLongRunningInstances that puts the violations of a page before those of the
\* earlier pages
findLongRunningInstancesNewestFirst(run, ok, state, c) ==
    LET page == Flatten(DescribeInstances(run.filters, run.page, state))
        flagged == SelectSeq(page, LAMBDA x : checkInstanceRuntime(x, c.Targets) = "flagged")
        called == [run EXCEPT !.calls = Append(@, Call("DescribeInstances", run.page, ok))]
    IN  IF ~ok THEN afterFind([called EXCEPT !.aborted = TRUE], <<>>)
        ELSE IF run.page < NumPages
        THEN [called EXCEPT !.page = @ + 1, !.found = flagged \o @,
                            !.collected = @ + Len(flagged)]
        ELSE afterFind([called EXCEPT !.collected = @ + Len(flagged)], flagged \o run.found)

\* findLongRunningInstances that ends the process's work on a failed page instead of
\* returning
findLongRunningInstancesFatal(run, ok, state, c) ==
    LET page == Flatten(DescribeInstances(run.filters, run.page, state))
        flagged == SelectSeq(page, LAMBDA x : checkInstanceRuntime(x, c.Targets) = "flagged")
        called == [run EXCEPT !.calls = Append(@, Call("DescribeInstances", run.page, ok))]
    IN  IF ~ok THEN [called EXCEPT !.pc = "panic", !.aborted = TRUE]
        ELSE IF run.page < NumPages
        THEN [called EXCEPT !.page = @ + 1, !.found = @ \o flagged,
                            !.collected = @ + Len(flagged)]
        ELSE afterFind([called EXCEPT !.collected = @ + Len(flagged)], run.found \o flagged)

\* findLongRunningInstances that returns into RunCheck with the first page that holds
\* a violation, the later pages unread
findLongRunningInstancesEager(run, ok, state, c) ==
    LET page == Flatten(DescribeInstances(run.filters, run.page, state))
        flagged == SelectSeq(page, LAMBDA x : checkInstanceRuntime(x, c.Targets) = "flagged")
        called == [run EXCEPT !.calls = Append(@, Call("DescribeInstances", run.page, ok))]
    IN  IF ~ok THEN afterFind([called EXCEPT !.aborted = TRUE], <<>>)
        ELSE IF run.page < NumPages /\ flagged = <<>>
        THEN [called EXCEPT !.page = @ + 1]
        ELSE afterFind([called EXCEPT !.collected = @ + Len(flagged)], run.found \o flagged)

\* One turn of the paginator loop of findLongRunningInstances and, when the loop ends,
\* its return into RunCheck. ok: whether NextPage succeeds.
findLongRunningInstances(run, ok, state, c) ==
    LET page == Flatten(DescribeInstances(run.filters, run.page, state))
        panics == \E i \in 1..Len(page) : checkInstanceRuntime(page[i], c.Targets) = "panic"
        flagged == SelectSeq(page, LAMBDA x : checkInstanceRuntime(x, c.Targets) = "flagged")
        called == [run EXCEPT !.calls = Append(@, Call("DescribeInstances", run.page, ok))]
    IN  IF ~ok THEN afterFind([called EXCEPT !.aborted = TRUE], <<>>)
        ELSE IF panics THEN [called EXCEPT !.pc = "panic"]
        ELSE IF run.page < NumPages
        THEN [called EXCEPT !.page = @ + 1, !.found = @ \o flagged,
                            !.collected = @ + Len(flagged)]
        ELSE afterFind([called EXCEPT !.collected = @ + Len(flagged)], run.found \o flagged)

\* terminateInstance that calls once more when the call has failed
terminateInstanceRetry(run, instanceID, ok) ==
    [run EXCEPT !.calls = IF ok THEN Append(@, Call("TerminateInstances", instanceID, ok))
                          ELSE @ \o <<Call("TerminateInstances", instanceID, ok),
                                      Call("TerminateInstances", instanceID, ok)>>,
                !.message = Append(@, <<IF ok THEN "terminated" ELSE "failed", instanceID>>)]

\* terminateInstance: the call and its line of the message
terminateInstance(run, instanceID, ok) ==
    [run EXCEPT !.calls = Append(@, Call("TerminateInstances", instanceID, ok)),
                !.message = Append(@, <<IF ok THEN "terminated" ELSE "failed", instanceID>>)]

\* the loop of processInstances that returns after its first turn
loopEndAfterFirst(run) == [run EXCEPT !.pc = "notify", !.idx = @ + 1]

\* the loop of processInstances leaves after this turn
loopEnd(run) ==
    IF run.idx = Len(run.found)
    THEN [run EXCEPT !.pc = "notify", !.idx = @ + 1]
    ELSE [run EXCEPT !.idx = @ + 1]

\* processInstances that terminates whatever DryRun says
processInstancesNoDryRun(run, ok, c) ==
    LET listed == [run EXCEPT !.message = Append(@, <<"instance", run.found[run.idx].id>>)]
    IN  loopEnd(terminateInstance(listed, run.found[run.idx].id, ok))

\* processInstances that stops at the first failed termination
processInstancesStopOnFailure(run, ok, c) ==
    LET listed == [run EXCEPT !.message = Append(@, <<"instance", run.found[run.idx].id>>)]
    IN  IF c.DryRun THEN loopEnd(listed)
        ELSE IF ok THEN loopEnd(terminateInstance(listed, run.found[run.idx].id, ok))
        ELSE [terminateInstance(listed, run.found[run.idx].id, ok) EXCEPT !.pc = "notify"]

\* One turn of the loop of processInstances. ok: whether TerminateInstances succeeds.
processInstances(run, ok, c) ==
    LET listed == [run EXCEPT !.message = Append(@, <<"instance", run.found[run.idx].id>>)]
    IN  IF ~c.DryRun
        THEN loopEnd(terminateInstance(listed, run.found[run.idx].id, ok))
        ELSE loopEnd(listed)

Subject == "Long-Running EC2 Instances Alert"

\* the sns.PublishInput sendNotification builds
PublishInput(run, c) ==
    [Message |-> run.message, TopicArn |-> c.SNSTopicArn, Subject |-> Subject]

\* sendNotification that publishes whether or not a topic is configured
sendNotificationNoTopicCheck(run, ok, c) ==
    [run EXCEPT !.pc = "done", !.calls = Append(@, Call("Publish", 0, ok)),
                !.published = Append(@, PublishInput(run, c))]

\* sendNotification that sends RunCheck back to the remediation when Publish fails
sendNotificationRetryOnFailure(run, ok, c) ==
    IF c.SNSTopicArn = "" THEN [run EXCEPT !.pc = "done"]
    ELSE IF ok
    THEN [run EXCEPT !.pc = "done", !.calls = Append(@, Call("Publish", 0, ok)),
                     !.published = Append(@, PublishInput(run, c))]
    ELSE [run EXCEPT !.pc = "process", !.idx = 1,
                     !.calls = Append(@, Call("Publish", 0, ok)),
                     !.published = Append(@, PublishInput(run, c))]

\* sendNotification, and RunCheck returns. ok: whether Publish succeeds. published
\* keeps the input of each Publish call.
sendNotification(run, ok, c) ==
    IF c.SNSTopicArn = "" THEN [run EXCEPT !.pc = "done"]
    ELSE [run EXCEPT !.pc = "done", !.calls = Append(@, Call("Publish", 0, ok)),
                     !.published = Append(@, PublishInput(run, c))]

\* the outcomes a provider call can have: a call under a cancelled context fails
Outcomes(r) == IF cancelled[r] THEN {FALSE} ELSE BOOLEAN

Alive(r) == proc[r] \notin {"absent", "exited"}

\* RunCheck goes on, or returns to its caller: main in single-run mode (the process
\* ends, its last cycle left to read), runSimpleScheduler after the immediate call
\* (slot 0: it blocks on ctx.Done()), or a job of the scheduler (its goroutine ends).
Continue(r, s, run) ==
    IF run.pc # "done"
    THEN /\ runs' = [runs EXCEPT ![r][s] = run]
         /\ UNCHANGED <<proc, sched>>
    ELSE IF proc[r] = "single"
    THEN /\ runs' = [runs EXCEPT ![r][s] = run]
         /\ proc' = [proc EXCEPT ![r] = "exited"]
         /\ UNCHANGED sched
    ELSE /\ runs' = [runs EXCEPT ![r][s] = IdleRun]
         /\ sched' = IF s = 0 THEN [sched EXCEPT ![r] = "waiting"] ELSE sched
         /\ UNCHANGED proc

DescribePage(r, s) ==
    /\ Alive(r)
    /\ runs[r][s].pc = "describe"
    /\ \E ok \in Outcomes(r) :
           /\ Continue(r, s, findLongRunningInstances(runs[r][s], ok, fleetState, cfg))
           /\ retrievalFailed' = IF ok \/ cancelled[r] THEN retrievalFailed
                                  ELSE retrievalFailed \cup {r}
    /\ UNCHANGED <<cfg, environ, pureVars, fleetState, lease, cancelled, skipped,
                   publishFailed, interrupted>>

ProcessInstance(r, s) ==
    /\ Alive(r)
    /\ runs[r][s].pc = "process"
    /\ \E ok \in Outcomes(r) :
           LET run == processInstances(runs[r][s], ok, cfg)
           IN  /\ Continue(r, s, run)
               /\ fleetState' =
                      IF \E i \in 1..Len(run.calls) :
                             /\ i > Len(runs[r][s].calls)
                             /\ run.calls[i].op = "TerminateInstances"
                             /\ run.calls[i].ok
                      THEN [fleetState EXCEPT
                                ![runs[r][s].found[runs[r][s].idx].id] = "shutting-down"]
                      ELSE fleetState
    /\ UNCHANGED <<cfg, environ, pureVars, lease, cancelled, skipped, publishFailed,
                   retrievalFailed, interrupted>>

SendNotification(r, s) ==
    /\ Alive(r)
    /\ runs[r][s].pc = "notify"
    /\ \E ok \in Outcomes(r) :
           LET run == sendNotification(runs[r][s], ok, cfg)
           IN  /\ Continue(r, s, run)
               /\ publishFailed' =
                      IF /\ Len(run.published) > Len(runs[r][s].published)
                         /\ ~ok
                         /\ ~cancelled[r]
                      THEN publishFailed \cup {r}
                      ELSE publishFailed
    /\ UNCHANGED <<cfg, environ, pureVars, fleetState, lease, cancelled, skipped,
                   interrupted, retrievalFailed>>

----------------------------------------------------------------------------
(* main: single-run mode.                                                  *)

NoRuns == [r \in Replicas |-> [s \in Slots |-> IdleRun]]

Policy(ty, nm, tg, max) ==
    [InstanceType |-> ty, Name |-> nm, Tags |-> tg, MaxRuntimeHours |-> max]

\* the policy lists of the configurations Spec draws
CycleTargets ==
    {<<Policy("", "", NoTags, 24)>>,
     <<Policy("t2.micro", "", NoTags, 24)>>,
     <<Policy("t2.micro", "dev-*", Tags1("Environment", "dev"), 4096)>>,
     <<Policy("", "dev-*", NoTags, 24)>>,
     <<Policy("", "dev-*", NoTags, 4096), Policy("", "", NoTags, 24)>>}

TopicArn == "arn:aws:sns:us-east-1:123456789012:mytopic"

CycleConfigs ==
    {[Targets |-> t, VpcID |-> v, DryRun |-> d, SNSTopicArn |-> a,
      LeaderElectionEnabled |-> FALSE, cron |-> FALSE] :
        t \in CycleTargets, v \in {"", "vpc-1"}, d \in BOOLEAN, a \in {"", TopicArn}}

----------------------------------------------------------------------------
(* config.Load: the environment variables and the configuration file.      *)

\* an environment variable: os.LookupEnv's two results
EnvUnset == [set |-> FALSE, value |-> ""]
EnvSet(v) == [set |-> TRUE, value |-> v]

\* a JSON value met where Target.MaxRuntimeHours (float64) is decoded: a number, a
\* string, or no "maxRuntimeHours" key at all
JNumber(n) == [kind |-> "number", num |-> n]
JString == [kind |-> "string", num |-> 0]
JAbsent == [kind |-> "absent", num |-> 0]

\* one object of the array in the configuration file
JTarget(ty, nm, tg, max) ==
    [instanceType |-> ty, name |-> nm, tags |-> tg, maxRuntimeHours |-> max]

\* the file at CONFIG_PATH: whether os.Open finds it, whether its bytes are a JSON
\* array of objects, and the objects
NoFile == [exists |-> FALSE, valid |-> FALSE, targets |-> <<>>]
BadJSON == [exists |-> TRUE, valid |-> FALSE, targets |-> <<>>]
JSONFile(ts) == [exists |-> TRUE, valid |-> TRUE, targets |-> ts]

\* the environment of a process whose configuration is given as loaded
NoEnviron ==
    [AWS_REGION |-> EnvUnset, CONFIG_PATH |-> EnvUnset, DRY_RUN |-> EnvUnset,
     SNS_TOPIC_ARN |-> EnvUnset, VPC_ID |-> EnvUnset, args |-> <<>>, file |-> NoFile]

\* cfg := &Config{}
ZeroConfig ==
    [Targets |-> <<>>, VpcID |-> "", DryRun |-> FALSE, SNSTopicArn |-> "",
     LeaderElectionEnabled |-> FALSE, cron |-> FALSE]

\* strconv.ParseBool, which env.Parse applies to a bool field
ParseBool(str) ==
    IF str \in {"1", "t", "T", "TRUE", "true", "True"} THEN [err |-> FALSE, b |-> TRUE]
    ELSE IF str \in {"0", "f", "F", "FALSE", "false", "False"}
         THEN [err |-> FALSE, b |-> FALSE]
    ELSE [err |-> TRUE, b |-> FALSE]

\* the tag envDefault:"true" of Config.DryRun
DryRunDefault == "true"

\* env.Parse of a Config whose DryRun had no envDefault: the field keeps its zero
\* value when DRY_RUN is not set
envParseNoDefault(e) ==
    LET dry == IF e.DRY_RUN.set THEN ParseBool(e.DRY_RUN.value)
               ELSE [err |-> FALSE, b |-> FALSE]
    IN  IF ~e.AWS_REGION.set \/ ~e.CONFIG_PATH.set \/ dry.err
        THEN [err |-> TRUE, cfg |-> ZeroConfig]
        ELSE [err |-> FALSE,
              cfg |-> [ZeroConfig EXCEPT !.DryRun = dry.b,
                                         !.SNSTopicArn = e.SNS_TOPIC_ARN.value,
                                         !.VpcID = e.VPC_ID.value]]

\* env.Parse(cfg): a required variable that is not set is an error; DRY_RUN takes its
\* default when it is not set, and is parsed as a bool; the string fields take the
\* variable's value, or stay empty
envParse(e) ==
    LET dry == ParseBool(IF e.DRY_RUN.set THEN e.DRY_RUN.value ELSE DryRunDefault)
    IN  IF ~e.AWS_REGION.set \/ ~e.CONFIG_PATH.set \/ dry.err
        THEN [err |-> TRUE, cfg |-> ZeroConfig]
        ELSE [err |-> FALSE,
              cfg |-> [ZeroConfig EXCEPT !.DryRun = dry.b,
                                         !.SNSTopicArn = e.SNS_TOPIC_ARN.value,
                                         !.VpcID = e.VPC_ID.value]]

\* what json.Unmarshal stores in a Target: a number as it stands (no range is
\* checked), 0 for a missing key; the name is stored as any string
decodeTarget(o) ==
    [InstanceType |-> o.instanceType, Name |-> o.name, Tags |-> o.tags,
     MaxRuntimeHours |-> o.maxRuntimeHours.num]

\* json.Unmarshal(byteValue, &targets): an error for bytes that are not JSON and for
\* a string where the float64 is expected
jsonUnmarshal(f) ==
    IF ~f.valid \/ \E i \in 1..Len(f.targets) : f.targets[i].maxRuntimeHours.kind = "string"
    THEN [err |-> TRUE, targets |-> <<>>]
    ELSE [err |-> FALSE, targets |-> [i \in 1..Len(f.targets) |-> decodeTarget(f.targets[i])]]

\* isCronMode
isCronMode(args) == Len(args) > 0 /\ args[1] = "cron"

\* Load
Load(e) ==
    LET parsed == envParse(e)
        decoded == jsonUnmarshal(e.file)
    IN  IF parsed.err THEN [err |-> TRUE, cfg |-> ZeroConfig]
        ELSE IF ~e.file.exists THEN [err |-> TRUE, cfg |-> ZeroConfig]
        ELSE IF decoded.err THEN [err |-> TRUE, cfg |-> ZeroConfig]
        ELSE [err |-> FALSE, cfg |-> [parsed.cfg EXCEPT !.Targets = decoded.targets]]

Init ==
    /\ cfg \in CycleConfigs
    /\ environ = NoEnviron
    /\ inst = FleetInstance(1)
    /\ filters = <<>>
    /\ verdict = "none"
    /\ pstage = "off"
    /\ fleetState = [i \in 1..NumInstances |-> "running"]
    /\ runs = NoRuns
    /\ proc = [r \in Replicas |-> IF r = 1 THEN "start" ELSE "absent"]
    /\ sched = [r \in Replicas |-> "none"]
    /\ lease = 0
    /\ cancelled = [r \in Replicas |-> FALSE]
    /\ skipped = {}
    /\ interrupted = {}
    /\ publishFailed = {}
    /\ retrievalFailed = {}

\* main without the cron argument: chk.RunCheck(ctx)
StartSingleRun(r) ==
    /\ proc[r] = "start"
    /\ ~cfg.cron
    /\ proc' = [proc EXCEPT ![r] = "single"]
    /\ \E order \in Orders(TagKeys(cfg.Targets)) :
           runs' = [runs EXCEPT ![r][0] = enterRunCheck(cfg, order)]
    /\ UNCHANGED <<cfg, environ, pureVars, fleetState, sched, lease, cancelled, skipped,
                   publishFailed, retrievalFailed, interrupted>>

Next ==
    \E r \in Replicas :
        \/ StartSingleRun(r)
        \/ DescribePage(r, 0)
        \/ ProcessInstance(r, 0)
        \/ SendNotification(r, 0)

Spec == Init /\ [][Next]_vars

\* The single run under the scheduling of its one goroutine: main is not blocked
\* between the steps of RunCheck, and every provider call returns, with a result or an
\* error, so a step that can be taken is taken.
SpecLive == Spec /\ WF_vars(Next)


----------------------------------------------------------------------------
(* The pure functions applied to drawn inputs.                             *)

PureConfigs ==
    {[Targets |-> t, VpcID |-> v, DryRun |-> TRUE, SNSTopicArn |-> "",
      LeaderElectionEnabled |-> FALSE, cron |-> FALSE] :
        t \in SeqsUpTo(PolicyUniverse, MaxTargets), v \in {"", "vpc-1", "vpc-2"}}

PureInit ==
    /\ cfg \in PureConfigs
    /\ environ = NoEnviron
    /\ inst \in InstanceUniverse
    /\ filters = <<>>
    /\ verdict = "none"
    /\ pstage = "input"
    /\ fleetState = [i \in 1..NumInstances |-> "running"]
    /\ runs = NoRuns
    /\ proc = [r \in Replicas |-> "absent"]
    /\ sched = [r \in Replicas |-> "none"]
    /\ lease = 0
    /\ cancelled = [r \in Replicas |-> FALSE]
    /\ skipped = {}
    /\ interrupted = {}
    /\ publishFailed = {}
    /\ retrievalFailed = {}

PureBuildFilters ==
    /\ pstage = "input"
    /\ \E order \in Orders(TagKeys(cfg.Targets)) : filters' = buildFilters(cfg, order)
    /\ pstage' = "filtered"
    /\ UNCHANGED <<cfg, environ, inst, verdict, fleetState, runs, schedVars>>

PureCheckInstance ==
    /\ pstage = "filtered"
    /\ verdict' = checkInstanceRuntime(inst, cfg.Targets)
    /\ pstage' = "checked"
    /\ UNCHANGED <<cfg, environ, inst, filters, fleetState, runs, schedVars>>

PureNext == PureBuildFilters \/ PureCheckInstance

SpecPure == PureInit /\ [][PureNext]_vars

----------------------------------------------------------------------------
(* matchesTarget applied to one drawn policy and one drawn instance.       *)
(* pstage: "input", "matched"; verdict: "match", "nomatch".                *)

\* Name patterns a policy can carry
MatchPatterns == {"dev-*", "dev-?", "*", "dev-[0-9]", "dev-[^0-9]", "dev-\\*", "[", "dev-1"}

\* values of the Name tag of an instance
MatchNames == {"", "dev-1", "dev-a", "prod-1", "dev-*", "dev-?", "a/b", "["}

\* tag requirements of a policy: the required value can be the empty string
MatchRequirements ==
    {NoTags,
     Tags1("Environment", "dev"),
     Tags1("Environment", ""),
     DevTeam,
     Tags2("Environment", "dev", "Team", "")}

\* the tags of an instance besides Name
MatchInstanceTags ==
    {NoTags,
     Tags1("Environment", "dev"),
     Tags1("Environment", ""),
     Tags1("Environment", "Dev"),
     Tags1("Team", "backend"),
     DevTeam,
     Tags2("Environment", "prod", "Team", "backend")}

WithName(tags, name) ==
    [k \in DOMAIN tags \cup {"Name"} |-> IF k = "Name" THEN name ELSE tags[k]]

MatchConfigs ==
    {[Targets |-> <<Policy(ty, nm, tg, 24)>>, VpcID |-> "", DryRun |-> TRUE,
      SNSTopicArn |-> "", LeaderElectionEnabled |-> FALSE, cron |-> FALSE] :
        ty \in {"", "t2.micro"}, nm \in {""} \cup MatchPatterns, tg \in MatchRequirements}

MatchInstances ==
    {[id |-> 1, type |-> ty, vpc |-> "vpc-1", tags |-> tg, hasLaunch |-> TRUE,
      runtime |-> [h |-> 30, ns |-> 0]] :
        ty \in {"t2.micro", "m5.large"},
        tg \in MatchInstanceTags
                \cup {WithName(t, n) : t \in MatchInstanceTags, n \in MatchNames}}

MatchInit ==
    /\ cfg \in MatchConfigs
    /\ environ = NoEnviron
    /\ inst \in MatchInstances
    /\ filters = <<>>
    /\ verdict = "none"
    /\ pstage = "input"
    /\ fleetState = [i \in 1..NumInstances |-> "running"]
    /\ runs = NoRuns
    /\ proc = [r \in Replicas |-> "absent"]
    /\ sched = [r \in Replicas |-> "none"]
    /\ lease = 0
    /\ cancelled = [r \in Replicas |-> FALSE]
    /\ skipped = {}
    /\ interrupted = {}
    /\ publishFailed = {}
    /\ retrievalFailed = {}

\* c.matchesTarget(instance, target)
MatchTarget ==
    /\ pstage = "input"
    /\ verdict' = IF matchesTarget(inst, cfg.Targets[1]) THEN "match" ELSE "nomatch"
    /\ pstage' = "matched"
    /\ UNCHANGED <<cfg, environ, inst, filters, fleetState, runs, schedVars>>

MatchNext == MatchTarget

SpecMatch == MatchInit /\ [][MatchNext]_vars

----------------------------------------------------------------------------
(* main: cron mode. runSimpleScheduler, and runWithLeaderElection with the *)
(* lease of client-go's leaderelection behind RunLeaderElection.           *)
(* proc: "absent", "start", "single", "cron" (runSimpleScheduler called    *)
(* from runCronMode), "electing", "leading", "lost" (no longer leading,    *)
(* the process still up), "exited".                                        *)
(* sched: "none", "immediate" (s.Start() done, the immediate RunCheck in   *)
(* progress), "waiting" (blocked on ctx.Done()), "shutdown" (s.Shutdown()  *)
(* waits for the jobs), "returned".                                        *)

SchedConfigs ==
    {[Targets |-> <<Policy("t2.micro", "", NoTags, 24)>>, VpcID |-> "", DryRun |-> FALSE,
      SNSTopicArn |-> TopicArn, LeaderElectionEnabled |-> le, cron |-> TRUE] :
        le \in BOOLEAN}

SchedInit ==
    /\ cfg \in SchedConfigs
    /\ environ = NoEnviron
    /\ inst = FleetInstance(1)
    /\ filters = <<>>
    /\ verdict = "none"
    /\ pstage = "off"
    /\ fleetState = [i \in 1..NumInstances |-> "running"]
    /\ runs = NoRuns
    /\ proc = [r \in Replicas |->
                  IF cfg.LeaderElectionEnabled \/ r = 1 THEN "start" ELSE "absent"]
    /\ sched = [r \in Replicas |-> "none"]
    /\ lease = 0
    /\ cancelled = [r \in Replicas |-> FALSE]
    /\ skipped = {}
    /\ interrupted = {}
    /\ publishFailed = {}
    /\ retrievalFailed = {}

\* runCronMode that never asks for the election
runCronModeNoElection(c) == "cron"

\* runCronMode: where main goes
runCronMode(c) == IF c.LeaderElectionEnabled THEN "electing" ELSE "cron"

RunCronMode(r) ==
    /\ proc[r] = "start"
    /\ cfg.cron
    /\ proc' = [proc EXCEPT ![r] = runCronMode(cfg)]
    /\ UNCHANGED <<cfg, environ, pureVars, fleetState, runs, sched, lease, cancelled,
                   skipped, publishFailed, retrievalFailed, interrupted>>

\* The lease is free and this candidate takes it: OnStartedLeading is called.
Acquire(r) ==
    /\ proc[r] = "electing"
    /\ ~cancelled[r]
    /\ lease = 0
    /\ lease' = r
    /\ proc' = [proc EXCEPT ![r] = "leading"]
    /\ UNCHANGED <<cfg, environ, pureVars, fleetState, runs, sched, cancelled, skipped,
                   publishFailed, retrievalFailed, interrupted>>

\* runSimpleScheduler entered by a candidate that has not waited for OnStartedLeading
StartSchedulerBeforeLeading(r) ==
    /\ proc[r] \in {"cron", "electing", "leading"}
    /\ sched[r] = "none"
    /\ sched' = [sched EXCEPT ![r] = "immediate"]
    /\ \E order \in Orders(TagKeys(cfg.Targets)) :
           runs' = [runs EXCEPT ![r][0] = enterRunCheck(cfg, order)]
    /\ UNCHANGED <<cfg, environ, pureVars, fleetState, proc, lease, cancelled, skipped,
                   publishFailed, retrievalFailed, interrupted>>

\* runSimpleScheduler that starts its scheduler and goes straight to <-ctx.Done()
StartSchedulerNoImmediate(r) ==
    /\ proc[r] \in {"cron", "leading"}
    /\ sched[r] = "none"
    /\ sched' = [sched EXCEPT ![r] = "waiting"]
    /\ UNCHANGED <<cfg, environ, pureVars, fleetState, runs, proc, lease, cancelled,
                   skipped, publishFailed, retrievalFailed, interrupted>>

\* runSimpleScheduler up to its immediate RunCheck: NewScheduler, NewJob, s.Start(),
\* chk.RunCheck(ctx)
StartScheduler(r) ==
    /\ proc[r] \in {"cron", "leading"}
    /\ sched[r] = "none"
    /\ sched' = [sched EXCEPT ![r] = "immediate"]
    /\ \E order \in Orders(TagKeys(cfg.Targets)) :
           runs' = [runs EXCEPT ![r][0] = enterRunCheck(cfg, order)]
    /\ UNCHANGED <<cfg, environ, pureVars, fleetState, proc, lease, cancelled, skipped,
                   publishFailed, retrievalFailed, interrupted>>

\* runSimpleScheduler whose scheduler still runs its job while s.Shutdown() waits
RunningUntilReturned(r) == Alive(r) /\ sched[r] \in {"immediate", "waiting", "shutdown"}

Running(r) == Alive(r) /\ sched[r] \in {"immediate", "waiting"}

FreeSlots(r) == {s \in 1..MaxJobs : runs[r][s].pc = "idle"}

FirstFree(r) == CHOOSE s \in FreeSlots(r) : \A t \in FreeSlots(r) : s <= t

\* The schedule fires: every started scheduler runs its job, chk.RunCheck(ctx), in a
\* goroutine of its own, whatever else runs.
Tick ==
    /\ \E r \in Replicas : Alive(r)
    /\ \A r \in Replicas : Running(r) => FreeSlots(r) # {}
    /\ \E order \in Orders(TagKeys(cfg.Targets)) :
           runs' = [r \in Replicas |->
                       IF Running(r)
                       THEN [runs[r] EXCEPT ![FirstFree(r)] = enterRunCheck(cfg, order)]
                       ELSE runs[r]]
    /\ skipped' = skipped \cup
                      {r \in Replicas : cfg.LeaderElectionEnabled /\ Alive(r) /\ lease # r}
    /\ UNCHANGED <<cfg, environ, pureVars, fleetState, proc, sched, lease, cancelled,
                   interrupted, publishFailed, retrievalFailed>>

\* SIGINT or SIGTERM: the context of signal.NotifyContext is done
Cancel(r) ==
    /\ proc[r] \in {"cron", "electing", "leading"}
    /\ ~cancelled[r]
    /\ cancelled' = [cancelled EXCEPT ![r] = TRUE]
    /\ publishFailed' = publishFailed \ {r}
    /\ retrievalFailed' = retrievalFailed \ {r}
    /\ UNCHANGED <<cfg, environ, pureVars, fleetState, runs, proc, sched, lease,
                   skipped, interrupted>>

\* <-ctx.Done() returns: s.Shutdown() stops the scheduler
Shutdown(r) ==
    /\ Alive(r)
    /\ sched[r] = "waiting"
    /\ cancelled[r] \/ proc[r] = "lost"
    /\ sched' = [sched EXCEPT ![r] = "shutdown"]
    /\ UNCHANGED <<cfg, environ, pureVars, fleetState, runs, proc, lease, cancelled,
                   skipped, publishFailed, retrievalFailed, interrupted>>

\* s.Shutdown() has waited for the jobs: runSimpleScheduler returns, and without the
\* election main returns with it
ReturnScheduler(r) ==
    /\ Alive(r)
    /\ sched[r] = "shutdown"
    /\ \A s \in 1..MaxJobs : runs[r][s].pc = "idle"
    /\ sched' = [sched EXCEPT ![r] = "returned"]
    /\ proc' = [proc EXCEPT ![r] = IF @ = "cron" THEN "exited" ELSE @]
    /\ cancelled' = IF proc[r] = "cron" THEN [cancelled EXCEPT ![r] = FALSE]
                    ELSE cancelled
    /\ publishFailed' = IF proc[r] = "cron" THEN publishFailed \ {r} ELSE publishFailed
    /\ retrievalFailed' = IF proc[r] = "cron" THEN retrievalFailed \ {r}
                          ELSE retrievalFailed
    /\ UNCHANGED <<cfg, environ, pureVars, fleetState, runs, lease, skipped, interrupted>>

InCycle(r) == \E s \in Slots : runs[r][s].pc \notin {"idle", "done"}

\* OnStoppedLeading that only logs
OnStoppedLeadingNoExit(r) ==
    /\ proc' = [proc EXCEPT ![r] = "lost"]
    /\ UNCHANGED <<runs, sched, interrupted, publishFailed, retrievalFailed, skipped>>

\* OnStoppedLeading: os.Exit(0), whatever the process is doing
OnStoppedLeading(r) ==
    /\ proc' = [proc EXCEPT ![r] = "exited"]
    /\ runs' = [runs EXCEPT ![r] = [s \in Slots |-> IdleRun]]
    /\ sched' = [sched EXCEPT ![r] = "none"]
    /\ interrupted' = IF InCycle(r) THEN interrupted \cup {r} ELSE interrupted
    /\ publishFailed' = publishFailed \ {r}
    /\ retrievalFailed' = retrievalFailed \ {r}
    /\ skipped' = skipped \ {r}

\* The leader could not renew the lease within RenewDeadline: the elector's Run
\* returns through OnStoppedLeading. The lease still names it until LeaseDuration is over.
RenewFail(r) ==
    /\ proc[r] = "leading"
    /\ ~cancelled[r]
    /\ OnStoppedLeading(r)
    /\ UNCHANGED <<cfg, environ, pureVars, fleetState, lease, cancelled>>

\* The elector sees its context done: a leader gives the lease up (ReleaseOnCancel),
\* and Run returns through OnStoppedLeading; the context ends with the process.
StopOnCancel(r) ==
    /\ proc[r] \in {"electing", "leading"}
    /\ cancelled[r]
    /\ lease' = IF lease = r THEN 0 ELSE lease
    /\ OnStoppedLeading(r)
    /\ cancelled' = [cancelled EXCEPT ![r] = FALSE]
    /\ UNCHANGED <<cfg, environ, pureVars, fleetState>>

\* LeaseDuration has passed since the holder last renewed the lease
LeaseExpire ==
    /\ lease \in Replicas
    /\ proc[lease] # "leading"
    /\ lease' = 0
    /\ UNCHANGED <<cfg, environ, pureVars, fleetState, runs, proc, sched, cancelled,
                   skipped, publishFailed, retrievalFailed, interrupted>>

SchedNext ==
    \/ Tick
    \/ LeaseExpire
    \/ \E r \in Replicas :
        \/ RunCronMode(r)
        \/ Acquire(r)
        \/ StartScheduler(r)
        \/ Cancel(r)
        \/ Shutdown(r)
        \/ ReturnScheduler(r)
        \/ RenewFail(r)
        \/ StopOnCancel(r)
        \/ \E s \in Slots :
            \/ DescribePage(r, s)
            \/ ProcessInstance(r, s)
            \/ SendNotification(r, s)

SpecSched == SchedInit /\ [][SchedNext]_vars

----------------------------------------------------------------------------
(* Cron mode without the election: runCronMode calls runSimpleScheduler on  *)
(* main's goroutine. Each goroutine of the process goes on when it can:     *)
(* main through runCronMode, s.Start(), <-ctx.Done() once the context is    *)
(* done and the return of s.Shutdown() once the jobs are over; a RunCheck   *)
(* from one provider call to the next, every call returning. The ticks of   *)
(* the schedule and the signal come from outside, when they come.           *)

CronInit ==
    /\ SchedInit
    /\ ~cfg.LeaderElectionEnabled

CronNext ==
    \/ Tick
    \/ \E r \in Replicas :
        \/ RunCronMode(r)
        \/ StartScheduler(r)
        \/ Cancel(r)
        \/ Shutdown(r)
        \/ ReturnScheduler(r)
        \/ \E s \in Slots :
            \/ DescribePage(r, s)
            \/ ProcessInstance(r, s)
            \/ SendNotification(r, s)

CronFairness ==
    \A r \in Replicas :
        /\ WF_vars(RunCronMode(r))
        /\ WF_vars(StartScheduler(r))
        /\ WF_vars(Shutdown(r))
        /\ WF_vars(ReturnScheduler(r))
        /\ \A s \in Slots :
               WF_vars(DescribePage(r, s) \/ ProcessInstance(r, s) \/ SendNotification(r, s))

SpecCron == CronInit /\ [][CronNext]_vars /\ CronFairness

----------------------------------------------------------------------------
(* main from its first statement: config.Load, initChecker, then the single *)
(* run, from a drawn environment and configuration file.                    *)

ConfigPath == "/config/targets.json"

\* the arrays of the configuration files SpecLoad draws: thresholds above, at and
\* below zero, a threshold given as a string, a name that is no glob pattern
LoadTargets ==
    {<<JTarget("", "", NoTags, JNumber(24))>>,
     <<JTarget("", "", NoTags, JNumber(0))>>,
     <<JTarget("", "", NoTags, JNumber(-1))>>,
     <<JTarget("", "", NoTags, JAbsent)>>,
     <<JTarget("", "", NoTags, JString)>>,
     <<JTarget("", "[", NoTags, JNumber(24))>>,
     <<JTarget("", "[", NoTags, JNumber(24)), JTarget("", "", NoTags, JNumber(24))>>,
     <<JTarget("t2.micro", "dev-*", NoTags, JNumber(0)),
       JTarget("", "", NoTags, JNumber(4096))>>}

LoadFiles == {NoFile, BadJSON} \cup {JSONFile(ts) : ts \in LoadTargets}

LoadEnvirons ==
    {[AWS_REGION |-> region, CONFIG_PATH |-> EnvSet(ConfigPath), DRY_RUN |-> dry,
      SNS_TOPIC_ARN |-> EnvSet(TopicArn), VPC_ID |-> EnvUnset, args |-> <<>>,
      file |-> f] :
        region \in {EnvUnset, EnvSet("us-east-1")},
        dry \in {EnvUnset, EnvSet("true"), EnvSet("false"), EnvSet("yes")},
        f \in LoadFiles}

\* the instances SpecLoad hands to checkInstanceRuntime: launched this instant, one
\* nanosecond ago, thirty hours ago
LoadInstances ==
    {[FleetInstance(1) EXCEPT !.runtime = [h |-> hh, ns |-> n]] :
        hh \in {0, 30}, n \in {0, 1}}

LoadInit ==
    /\ cfg = ZeroConfig
    /\ environ \in LoadEnvirons
    /\ inst \in LoadInstances
    /\ filters = <<>>
    /\ verdict = "none"
    /\ pstage = "boot"
    /\ fleetState = [i \in 1..NumInstances |-> "running"]
    /\ runs = NoRuns
    /\ proc = [r \in Replicas |-> IF r = 1 THEN "boot" ELSE "absent"]
    /\ sched = [r \in Replicas |-> "none"]
    /\ lease = 0
    /\ cancelled = [r \in Replicas |-> FALSE]
    /\ skipped = {}
    /\ interrupted = {}
    /\ publishFailed = {}
    /\ retrievalFailed = {}

\* main down to initChecker: an error of config.Load or of the SDK's configuration is
\* os.Exit(1); otherwise the process holds the loaded configuration
LoadConfig(r) ==
    /\ proc[r] = "boot"
    /\ \E sdk \in BOOLEAN :
           LET loaded == Load(environ)
           IN  IF loaded.err \/ ~sdk
               THEN /\ proc' = [proc EXCEPT ![r] = "exited"]
                    /\ pstage' = "failed"
                    /\ cfg' = cfg
               ELSE /\ proc' = [proc EXCEPT ![r] = "start"]
                    /\ pstage' = "loaded"
                    /\ cfg' = [loaded.cfg EXCEPT !.cron = isCronMode(environ.args)]
    /\ UNCHANGED <<environ, inst, filters, verdict, fleetState, runs, sched, lease,
                   cancelled, skipped, interrupted, publishFailed, retrievalFailed>>

\* checkInstanceRuntime under the loaded policies, on the drawn instance
LoadCheckInstance ==
    /\ pstage = "loaded"
    /\ proc[1] = "start"
    /\ verdict' = checkInstanceRuntime(inst, cfg.Targets)
    /\ pstage' = "checked"
    /\ UNCHANGED <<cfg, environ, inst, filters, fleetState, runs, schedVars>>

LoadNext ==
    \/ LoadCheckInstance
    \/ \E r \in Replicas :
           \/ LoadConfig(r)
           \/ StartSingleRun(r)
           \/ DescribePage(r, 0)
           \/ ProcessInstance(r, 0)
           \/ SendNotification(r, 0)

SpecLoad == LoadInit /\ [][LoadNext]_vars

----------------------------------------------------------------------------
(* Two processes, each making a single run, with the same configuration and *)
(* against the same fleet.                                                  *)

TwinTargets ==
    {<<Policy("", "", NoTags, 24)>>,
     <<Policy("", "", Tags1("Environment", "dev"), 24),
       Policy("", "", Tags1("Team", "backend"), 24)>>}

TwinConfigs ==
    {[Targets |-> t, VpcID |-> "", DryRun |-> d, SNSTopicArn |-> TopicArn,
      LeaderElectionEnabled |-> FALSE, cron |-> FALSE] :
        t \in TwinTargets, d \in BOOLEAN}

TwinInit ==
    /\ cfg \in TwinConfigs
    /\ environ = NoEnviron
    /\ inst = FleetInstance(1)
    /\ filters = <<>>
    /\ verdict = "none"
    /\ pstage = "off"
    /\ fleetState = [i \in 1..NumInstances |-> "running"]
    /\ runs = NoRuns
    /\ proc = [r \in Replicas |-> IF r <= 2 THEN "start" ELSE "absent"]
    /\ sched = [r \in Replicas |-> "none"]
    /\ lease = 0
    /\ cancelled = [r \in Replicas |-> FALSE]
    /\ skipped = {}
    /\ interrupted = {}
    /\ publishFailed = {}
    /\ retrievalFailed = {}

SpecTwin == TwinInit /\ [][Next]_vars




----------------------------------------------------------------------------
(* Properties.                                                             *)

AllRuns == {runs[r][s] : r \in Replicas, s \in Slots}

CallsOf(run, op) == SelectSeq(run.calls, LAMBDA c : c.op = op)

EntriesOf(run, kind) == SelectSeq(run.message, LAMBDA e : e[1] = kind)

\* C1 (Spec): with dry-run enabled, whatever violations retrieval gives, no cycle ever
\* calls TerminateInstances, and no instance leaves the running state.
C1_DryRunNeverTerminates ==
    cfg.DryRun =>
        /\ \A run \in AllRuns : CallsOf(run, "TerminateInstances") = <<>>
        /\ \A i \in DOMAIN fleetState : fleetState[i] = "running"

\* a dry-run cycle that found several violations and went through all of them
C1_Witness ==
    /\ cfg.DryRun
    /\ runs[1][0].pc = "done"
    /\ Len(runs[1][0].found) >= 2
    /\ Len(EntriesOf(runs[1][0], "instance")) = Len(runs[1][0].found)

\* C2 (Spec): with dry-run disabled, once the loop over the violations is over, every
\* violation has had its termination call, in order, whatever the earlier calls
\* returned, and the message holds one failure entry per failed call and one success
\* entry per successful call.
C2_FailureIsolated ==
    \A run \in AllRuns :
        (~cfg.DryRun /\ run.pc \in {"notify", "done"} /\ Len(run.found) > 0) =>
            LET calls == CallsOf(run, "TerminateInstances")
            IN  /\ Len(calls) = Len(run.found)
                /\ \A i \in 1..Len(calls) : calls[i].arg = run.found[i].id
                /\ Len(EntriesOf(run, "failed")) =
                       Len(SelectSeq(calls, LAMBDA c : ~c.ok))
                /\ Len(EntriesOf(run, "terminated")) =
                       Len(SelectSeq(calls, LAMBDA c : c.ok))
                /\ \A i \in 1..Len(calls) :
                       <<IF calls[i].ok THEN "terminated" ELSE "failed", calls[i].arg>>
                           \in Range(run.message)

\* three violations, the second termination failing: two successes, one failure
C2_Witness ==
    LET run == runs[1][0]
        calls == CallsOf(run, "TerminateInstances")
    IN  /\ ~cfg.DryRun
        /\ run.pc = "done"
        /\ Len(run.found) = 3
        /\ Len(calls) = 3
        /\ calls[1].ok /\ ~calls[2].ok /\ calls[3].ok
        /\ Len(EntriesOf(run, "failed")) = 1
        /\ Len(EntriesOf(run, "terminated")) = 2

\* the first policy, in configured order, that the instance matches (0: none)
FirstMatch(instance, Targets) ==
    IF \E i \in 1..Len(Targets) : matchesTarget(instance, Targets[i])
    THEN CHOOSE i \in 1..Len(Targets) :
             /\ matchesTarget(instance, Targets[i])
             /\ \A j \in 1..(i - 1) : ~matchesTarget(instance, Targets[j])
    ELSE 0

\* C3 (SpecPure): the verdict on an instance with a launch time is decided by the
\* first policy it matches alone: it is a violation exactly when there is such a
\* policy and its runtime exceeds that policy's threshold, whatever later policies say.
C3_FirstMatchWins ==
    (pstage = "checked" /\ inst.hasLaunch) =>
        LET f == FirstMatch(inst, cfg.Targets)
        IN  verdict = IF f # 0 /\ HoursExceed(inst.runtime, cfg.Targets[f].MaxRuntimeHours)
                      THEN "flagged" ELSE "nil"

\* two matching policies, the later one stricter and exceeded, the first one not
C3_Witness ==
    /\ pstage = "checked"
    /\ inst.hasLaunch
    /\ Len(cfg.Targets) = 2
    /\ matchesTarget(inst, cfg.Targets[1])
    /\ matchesTarget(inst, cfg.Targets[2])
    /\ cfg.Targets[2].MaxRuntimeHours < cfg.Targets[1].MaxRuntimeHours
    /\ ~HoursExceed(inst.runtime, cfg.Targets[1].MaxRuntimeHours)
    /\ HoursExceed(inst.runtime, cfg.Targets[2].MaxRuntimeHours)
    /\ verdict = "nil"

InVpcScope(instance, c) == c.VpcID = "" \/ instance.vpc = c.VpcID

\* C4 (SpecPure): a running instance in the configured VPC scope that matches at least
\* one policy satisfies every clause of the filter buildFilters returns.
C4_NoFalseNegative ==
    (/\ pstage \in {"filtered", "checked"}
     /\ InVpcScope(inst, cfg)
     /\ \E i \in 1..Len(cfg.Targets) : matchesTarget(inst, cfg.Targets[i]))
        => SatisfiesFilters(inst, "running", filters)

\* C5 (SpecPure): the filter has an instance-type clause only when every policy names
\* a type: none when some policy's InstanceType is empty.
C5_TypeClauseOnlyWhenAllTyped ==
    (/\ pstage \in {"filtered", "checked"}
     /\ \E i \in 1..Len(filters) : filters[i].Name = <<"instance-type">>)
        => \A j \in 1..Len(cfg.Targets) : cfg.Targets[j].InstanceType # ""

\* C6 (Spec): a cycle in which the retrieval of a page failed ends there: it makes no
\* TerminateInstances and no Publish call, whatever the earlier pages held.
C6_RetrievalFailureAborts ==
    \A run \in AllRuns :
        run.aborted =>
            /\ run.pc = "done"
            /\ run.found = <<>>
            /\ CallsOf(run, "TerminateInstances") = <<>>
            /\ CallsOf(run, "Publish") = <<>>

\* a later page failed after an earlier page had given violations, in a configuration
\* that would have terminated and notified
C6_Witness ==
    /\ ~cfg.DryRun
    /\ cfg.SNSTopicArn # ""
    /\ runs[1][0].aborted
    /\ runs[1][0].collected > 0
    /\ runs[1][0].pc = "done"
    /\ ~runs[1][0].calls[Len(runs[1][0].calls)].ok

Busy(r) == \E s \in Slots : runs[r][s].pc # "idle"

C8_OneCyclePerProcess ==
    \A r \in Replicas : Cardinality({s \in Slots : runs[r][s].pc # "idle"}) <= 1

C10_StrictBoundary ==
    (/\ pstage = "checked"
     /\ inst.hasLaunch
     /\ Len(cfg.Targets) = 1
     /\ matchesTarget(inst, cfg.Targets[1])
     /\ inst.runtime.h = cfg.Targets[1].MaxRuntimeHours)
        => /\ inst.runtime.ns = 0 => verdict = "nil"
           /\ inst.runtime.ns = 1 => verdict = "flagged"

\* the instances pages 1..n of a listing under the cycle's filters return, all of the
\* fleet running, in the order they come: page, reservation, instance
RECURSIVE Retrieved(_, _)
Retrieved(run, n) ==
    IF n = 0 THEN <<>>
    ELSE Retrieved(run, n - 1)
         \o Flatten(DescribeInstances(run.filters, n, [i \in 1..NumInstances |-> "running"]))

PagesFetched(run) ==
    Len(SelectSeq(run.calls, LAMBDA c : c.op = "DescribeInstances" /\ c.ok))

\* the instance exceeds the threshold of the first policy it matches
IsViolation(instance, Targets) ==
    LET f == FirstMatch(instance, Targets)
    IN  f # 0 /\ HoursExceed(instance.runtime, Targets[f].MaxRuntimeHours)

\* C11 (Spec): every TerminateInstances call of a cycle, and every instance line of its
\* report, is for an instance that a page of this cycle returned, that matches a policy
\* and that exceeds the threshold of the first policy it matches; an instance that
\* matches no policy is neither reported nor terminated.
C11_OnlyViolationsTerminated ==
    \A run \in AllRuns :
        LET named == {c.arg : c \in Range(CallsOf(run, "TerminateInstances"))}
                     \cup {e[2] : e \in Range(EntriesOf(run, "instance"))}
            fetched == Retrieved(run, PagesFetched(run))
        IN  \A id \in named :
                /\ \E k \in 1..Len(fetched) : fetched[k].id = id
                /\ FirstMatch(FleetInstance(id), cfg.Targets) # 0
                /\ IsViolation(FleetInstance(id), cfg.Targets)

\* a cycle terminated a violation, while retrieval had also returned an instance over
\* the only threshold that matches no policy, and one over a later policy's threshold
\* but not over that of the first policy it matches: both were left alone
C11_Witness ==
    LET run == runs[1][0]
        fetched == Retrieved(run, PagesFetched(run))
        named == {c.arg : c \in Range(CallsOf(run, "TerminateInstances"))}
    IN  /\ ~cfg.DryRun
        /\ run.pc = "done"
        /\ named # {}
        /\ \E k \in 1..Len(fetched) :
               /\ fetched[k].id \notin named
               /\ \/ /\ FirstMatch(fetched[k], cfg.Targets) = 0
                     /\ HoursExceed(fetched[k].runtime, cfg.Targets[1].MaxRuntimeHours)
                  \/ /\ FirstMatch(fetched[k], cfg.Targets) = 1
                     /\ Len(cfg.Targets) = 2
                     /\ HoursExceed(fetched[k].runtime, cfg.Targets[2].MaxRuntimeHours)

\* C12 (Spec): a cycle that has found no violation makes no Publish and no
\* TerminateInstances call, whether or not a topic is configured: with an empty result
\* RunCheck returns before processInstances and sendNotification.
C12_NoViolationNoCalls ==
    \A run \in AllRuns :
        run.found = <<>> =>
            /\ CallsOf(run, "Publish") = <<>>
            /\ CallsOf(run, "TerminateInstances") = <<>>

\* every page came, instances were evaluated, none was a violation; a topic is
\* configured and dry-run is off
C12_Witness ==
    LET run == runs[1][0]
    IN  /\ ~cfg.DryRun
        /\ cfg.SNSTopicArn # ""
        /\ run.pc = "done"
        /\ ~run.aborted
        /\ PagesFetched(run) = NumPages
        /\ Retrieved(run, NumPages) # <<>>
        /\ run.found = <<>>

\* C13 (SpecMatch): a policy with tag requirements matches an instance only if every
\* required key is among the instance's tags, with exactly the required value.
C13_TagConjunction ==
    (/\ pstage = "matched"
     /\ DOMAIN cfg.Targets[1].Tags # {}
     /\ verdict = "match")
        => \A key \in DOMAIN cfg.Targets[1].Tags :
               /\ key \in DOMAIN inst.tags
               /\ inst.tags[key] = cfg.Targets[1].Tags[key]

\* the glob of the specification: `*` is any run of characters, every other character
\* stands for itself
RECURSIVE RefMatchFrom(_, _, _, _)
RefMatchFrom(p, i, n, j) ==
    IF i > Len(p) THEN j > Len(n)
    ELSE IF p[i] = "*" THEN
        \/ RefMatchFrom(p, i + 1, n, j)
        \/ /\ j <= Len(n)
           /\ RefMatchFrom(p, i, n, j + 1)
    ELSE
        /\ j <= Len(n)
        /\ n[j] = p[i]
        /\ RefMatchFrom(p, i + 1, n, j + 1)

RefMatch(pattern, name) == RefMatchFrom(Chars(pattern), 1, Chars(name), 1)

\* C14 (SpecMatch): a policy that names only a Name pattern matches an instance exactly
\* when the reference glob, in which `*` alone is a wildcard, matches the pattern
\* against the value of the instance's Name tag, the empty name without one.
C14_GlobOnlyStar ==
    (/\ pstage = "matched"
     /\ cfg.Targets[1].InstanceType = ""
     /\ cfg.Targets[1].Tags = NoTags
     /\ cfg.Targets[1].Name # "")
        => (verdict = "match") =
               RefMatch(cfg.Targets[1].Name,
                        IF "Name" \in DOMAIN inst.tags THEN inst.tags["Name"] ELSE "")

AllEmpty(target) == target.InstanceType = "" /\ target.Name = "" /\ DOMAIN target.Tags = {}

\* C15 (SpecPure): when the first policy has an empty InstanceType, Name and Tags, it
\* matches the instance whatever its type and tags, so the verdict is that of the
\* runtime against this policy's threshold and nothing else.
C15_EmptyPolicyMatchesAll ==
    (/\ pstage = "checked"
     /\ inst.hasLaunch
     /\ Len(cfg.Targets) >= 1
     /\ AllEmpty(cfg.Targets[1]))
        => /\ matchesTarget(inst, cfg.Targets[1])
           /\ verdict = IF HoursExceed(inst.runtime, cfg.Targets[1].MaxRuntimeHours)
                         THEN "flagged" ELSE "nil"

\* an instance with a type, a Name and other tags, flagged by an all-empty policy
C15_Witness ==
    /\ pstage = "checked"
    /\ inst.hasLaunch
    /\ Len(cfg.Targets) >= 1
    /\ AllEmpty(cfg.Targets[1])
    /\ inst.type = "m5.large"
    /\ inst.tags = AllTags
    /\ verdict = "flagged"

\* C16 (SpecPure): checkInstanceRuntime on an instance without a launch time returns
\* nil, the instance left out of the violations, and does not panic.
C16_NilLaunchExcluded ==
    (pstage = "checked" /\ ~inst.hasLaunch) => verdict = "nil"

\* C17 (Spec): a finished cycle that had violations has called Publish not at all
\* when no topic is configured, and exactly once when one is, with the configured
\* topic, the fixed subject and the cycle's message; before its end the cycle has not
\* called Publish.
C17_PublishOnceIfConfigured ==
    \A run \in AllRuns :
        /\ Len(CallsOf(run, "Publish")) = Len(run.published)
        /\ run.pc # "done" => run.published = <<>>
        /\ (run.pc = "done" /\ Len(run.found) > 0) =>
               run.published =
                   IF cfg.SNSTopicArn = "" THEN <<>>
                   ELSE <<[Message |-> run.message, TopicArn |-> cfg.SNSTopicArn,
                           Subject |-> "Long-Running EC2 Instances Alert"]>>

\* a cycle with violations and a topic: one Publish, whose message carries the lines of
\* the violations and the outcome of a failed termination
C17_Witness ==
    LET run == runs[1][0]
    IN  /\ cfg.SNSTopicArn = TopicArn
        /\ run.pc = "done"
        /\ Len(run.found) >= 2
        /\ Len(CallsOf(run, "Publish")) = 1
        /\ run.published[1].TopicArn = TopicArn
        /\ Len(run.published[1].Message) > Len(run.found)
        /\ \E e \in Range(run.published[1].Message) : e[1] = "failed"

\* C19 (Spec): with dry-run enabled, once the loop over the violations is over the
\* message holds, for every violation, a "would terminate" outcome entry.
C19_DryRunReportsWouldTerminate ==
    \A run \in AllRuns :
        (cfg.DryRun /\ run.pc \in {"notify", "done"}) =>
            \A i \in 1..Len(run.found) :
                <<"would-terminate", run.found[i].id>> \in Range(run.message)

\* the ids of a sequence of instances
Ids(instances) == [i \in 1..Len(instances) |-> instances[i].id]

\* the lines the message must hold after the header, for the violations from the i-th
\* on: each violation's line, followed with dry-run off by the outcome of its
\* termination call
RECURSIVE ReportLines(_, _, _)
ReportLines(run, calls, i) ==
    IF i > Len(run.found) THEN <<>>
    ELSE <<<<"instance", run.found[i].id>>>>
         \o (IF cfg.DryRun THEN <<>>
             ELSE <<<<IF calls[i].ok THEN "terminated" ELSE "failed", run.found[i].id>>>>)
         \o ReportLines(run, calls, i + 1)

C18_PublishFailureSwallowed ==
    /\ [](\A r \in publishFailed : ~cancelled[r] => Running(r))
    /\ [][\A r \in Replicas : \A s \in Slots :
             (runs[r][s].pc = "notify" /\ runs'[r][s].pc # "notify" /\ proc'[r] # "exited")
                 => /\ runs'[r][s] = IdleRun
                    /\ \A t \in Slots \ {s} : runs'[r][t] = runs[r][t]
                    /\ fleetState' = fleetState
                    /\ proc'[r] = proc[r]
                    /\ sched'[r] = IF s = 0 THEN "waiting" ELSE sched[r]]_vars

\* a Publish call failed in a process that was not cancelled: the process waits on its
\* context, the immediate cycle over, and a job of its scheduler has just entered a cycle
C18_Witness ==
    \E r \in publishFailed :
        /\ ~cancelled[r]
        /\ proc[r] \in {"cron", "leading"}
        /\ sched[r] = "waiting"
        /\ runs[r][0].pc = "idle"
        /\ runs[r][1].pc = "describe"
        /\ runs[r][1].calls = <<>>

\* the states of a cycle: Idle, Evaluating, Remediating, Notifying
CycleState(run) ==
    CASE run.pc \in {"idle", "done"} -> "Idle"
      [] run.pc = "describe" -> "Evaluating"
      [] run.pc = "process" -> "Remediating"
      [] run.pc = "notify" -> "Notifying"
      [] run.pc = "panic" -> "Crashed"

\* a step of a cycle from run to next is one the state sequence allows
CycleStep(run, next) ==
    LET from == CycleState(run)
        to == CycleState(next)
    IN  \/ from = to
        \/ /\ from = "Idle"
           /\ run.pc = "idle"
           /\ to = "Evaluating"
        \/ /\ from = "Evaluating"
           /\ to = "Remediating"
           /\ ~next.aborted
           /\ PagesFetched(next) = NumPages
           /\ Len(next.found) > 0
           /\ CallsOf(next, "TerminateInstances") = <<>>
        \/ /\ from = "Evaluating"
           /\ to = "Idle"
           /\ next.found = <<>>
        \/ /\ from = "Remediating"
           /\ to = "Notifying"
           /\ Len(EntriesOf(next, "instance")) = Len(next.found)
           /\ ~cfg.DryRun => Len(CallsOf(next, "TerminateInstances")) = Len(next.found)
           /\ CallsOf(next, "Publish") = <<>>
        \/ /\ from = "Notifying"
           /\ to = "Idle"

C22_CancelledCycleCompletes ==
    [][\A r \in Replicas : \A s \in Slots :
          (cancelled[r] /\ runs'[r][s] # runs[r][s]) =>
              /\ runs[r][s].pc = "process" =>
                     /\ runs'[r][s].pc \in {"process", "notify"}
                     /\ Len(CallsOf(runs'[r][s], "TerminateInstances")) =
                            Len(CallsOf(runs[r][s], "TerminateInstances")) + 1
              /\ runs[r][s].pc = "notify" =>
                     /\ runs'[r][s] = IdleRun
                     /\ proc'[r] # "exited"]_vars

\* the process has seen its context done while waiting for it: s.Shutdown() is called
\* or has returned
Observed(r) == sched[r] \in {"shutdown", "returned"}

\* C23 (SpecCron): a process that sees the cancellation while it waits for its context
\* with no cycle in progress starts nothing by seeing it, starts no cycle from then
\* on, whatever ticks follow, makes no provider call, and ends: runSimpleScheduler
\* returns and main with it.
C23_IdleCancelExitsCleanly ==
    /\ [][\A r \in Replicas :
             /\ (sched[r] = "waiting" /\ sched'[r] = "shutdown") =>
                    /\ cancelled[r]
                    /\ runs'[r] = runs[r]
                    /\ fleetState' = fleetState
             /\ (Observed(r) \/ proc[r] = "exited") =>
                    \A s \in Slots : runs[r][s].pc = "idle" => runs'[r][s].pc = "idle"
             /\ (Observed(r) /\ ~Busy(r)) =>
                    /\ fleetState' = fleetState
                    /\ sched'[r] # sched[r] =>
                           /\ sched'[r] = "returned"
                           /\ proc'[r] = "exited"]_vars
    /\ \A r \in Replicas : (Observed(r) /\ ~Busy(r)) ~> (proc[r] = "exited")

\* the process has ended after it saw the cancellation with no cycle in progress, the
\* only violation of the fleet still running
C23_Witness ==
    /\ proc[1] = "exited"
    /\ sched[1] = "returned"
    /\ ~Busy(1)
    /\ fleetState[1] = "running"

\* C24 (SpecSched): a leader whose context is not cancelled stops leading, and its
\* process stops, only when none of its goroutines is inside a cycle: a cycle in
\* progress when the lease is lost is first run to its end.
C24_LostLeaderCompletesCycle ==
    [][\A r \in Replicas :
          (proc[r] = "leading" /\ ~cancelled[r] /\ proc'[r] # "leading") => ~InCycle(r)]_vars

\* C25 (Spec): with a topic configured, every TerminateInstances call of a cycle comes
\* after a Publish call of that cycle.
C25_AlertBeforeAction ==
    \A run \in AllRuns :
        cfg.SNSTopicArn # "" =>
            \A i \in 1..Len(run.calls) :
                run.calls[i].op = "TerminateInstances" =>
                    \E j \in 1..(i - 1) : run.calls[j].op = "Publish"

\* the clauses of a filter whose Name is name
ClausesNamed(fs, name) == SelectSeq(fs, LAMBDA f : f.Name = name)

\* C26 (SpecPure): whatever the policy list, the empty one included, and whatever the
\* VPC, the filter buildFilters returns has exactly one clause on instance-state-name,
\* and its values are the single value "running".
C26_OneRunningStateClause ==
    pstage \in {"filtered", "checked"} =>
        LET state == ClausesNamed(filters, <<"instance-state-name">>)
        IN  /\ Len(state) = 1
            /\ state[1].Values = <<"running">>

\* the filter of two policies with a type, a VPC and two tag keys: five clauses, one of
\* them the lifecycle state
C26_Witness ==
    /\ pstage = "filtered"
    /\ Len(cfg.Targets) = 2
    /\ cfg.VpcID # ""
    /\ Len(filters) = 5
    /\ Len(ClausesNamed(filters, <<"instance-state-name">>)) = 1

\* C27 (Spec): the filter a cycle hands to its paginator, the same for every page it
\* asks for, has with a VPC configured exactly one vpc-id clause, whose values are that
\* one identifier, and without one no vpc-id clause, whatever the policy list; so with
\* a VPC configured no instance of another VPC is among the violations.
C27_VpcClauseIffConfigured ==
    \A run \in AllRuns :
        run.pc # "idle" =>
            /\ ClausesNamed(run.filters, <<"vpc-id">>) =
                   IF cfg.VpcID = "" THEN <<>>
                   ELSE <<[Name |-> <<"vpc-id">>, Values |-> <<cfg.VpcID>>]>>
            /\ cfg.VpcID # "" =>
                   \A i \in 1..Len(run.found) : run.found[i].vpc = cfg.VpcID

\* every page fetched under a VPC clause: an instance of another VPC that the policies
\* would flag is not among the violations, instances of the VPC are
C27_Witness ==
    LET run == runs[1][0]
    IN  /\ cfg.VpcID = "vpc-1"
        /\ run.pc = "done"
        /\ Len(CallsOf(run, "DescribeInstances")) = NumPages
        /\ PagesFetched(run) = NumPages
        /\ Len(run.found) > 0
        /\ \E i \in 1..NumInstances :
               /\ FleetInstance(i).vpc # cfg.VpcID
               /\ IsViolation(FleetInstance(i), cfg.Targets)
               /\ \A k \in 1..Len(run.found) : run.found[k].id # i

\* C28 (SpecPure): the filter has, for every tag key that some policy requires, exactly
\* one clause tag:<key>, whose values are as a set the values the policies require for
\* that key, and no tag clause for any other key; and when every policy names a type,
\* one instance-type clause whose values are as a set the types the policies name.
C28_TagClausePerKey ==
    pstage \in {"filtered", "checked"} =>
        LET Targets == cfg.Targets
            N == 1..Len(Targets)
            keys == {k \in {"Name", "Environment", "Team"} :
                         \E i \in N : k \in DOMAIN Targets[i].Tags}
        IN  /\ \A key \in keys :
                   LET clause == ClausesNamed(filters, <<"tag", key>>)
                   IN  /\ Len(clause) = 1
                       /\ Range(clause[1].Values) =
                              {Targets[i].Tags[key] :
                                   i \in {j \in N : key \in DOMAIN Targets[j].Tags}}
            /\ \A i \in 1..Len(filters) :
                   filters[i].Name[1] = "tag" => filters[i].Name[2] \in keys
            /\ (N # {} /\ \A i \in N : Targets[i].InstanceType # "") =>
                   LET clause == ClausesNamed(filters, <<"instance-type">>)
                   IN  /\ Len(clause) = 1
                       /\ Range(clause[1].Values) = {Targets[i].InstanceType : i \in N}

\* two policies with different types that require different values of the same tag
\* key, one of them a second key too: one clause per key, the shared key's holding
\* both values, and a type clause holding both types
C28_Witness ==
    /\ pstage = "filtered"
    /\ Len(cfg.Targets) = 2
    /\ cfg.Targets[1].InstanceType = "t2.micro"
    /\ cfg.Targets[2].InstanceType = "m5.large"
    /\ cfg.Targets[1].Tags = Tags1("Environment", "dev")
    /\ cfg.Targets[2].Tags = Tags1("Environment", "prod")
    /\ Len(ClausesNamed(filters, <<"tag", "Environment">>)) = 1
    /\ Range(ClausesNamed(filters, <<"tag", "Environment">>)[1].Values) = {"dev", "prod"}
    /\ Range(ClausesNamed(filters, <<"instance-type">>)[1].Values) = {"t2.micro", "m5.large"}

\* C29 (Spec): in a cycle no violation has more than one TerminateInstances call,
\* whether the call succeeded or failed, every such call names one violation of the
\* cycle, with dry-run off every violation has exactly one once the loop over them is
\* over, and the cycle calls Publish at most once.
C29_NoRetryWithinCycle ==
    \A run \in AllRuns :
        LET calls == CallsOf(run, "TerminateInstances")
        IN  /\ \A i, j \in 1..Len(calls) : calls[i].arg = calls[j].arg => i = j
            /\ \A i \in 1..Len(calls) :
                   \E k \in 1..Len(run.found) : run.found[k].id = calls[i].arg
            /\ (~cfg.DryRun /\ run.pc \in {"notify", "done"}) =>
                   \A k \in 1..Len(run.found) :
                       Cardinality({i \in 1..Len(calls) : calls[i].arg = run.found[k].id}) = 1
            /\ Len(CallsOf(run, "Publish")) <= 1

\* a finished cycle in which a termination failed and the notification failed: the
\* failed termination was called once, and so was Publish
C29_Witness ==
    LET run == runs[1][0]
        calls == CallsOf(run, "TerminateInstances")
    IN  /\ run.pc = "done"
        /\ Len(run.found) >= 2
        /\ Len(calls) = Len(run.found)
        /\ ~calls[1].ok
        /\ calls[2].ok
        /\ CallsOf(run, "Publish") = <<Call("Publish", 0, FALSE)>>

\* a RunCheck that has just been entered: its paginator at the first page, nothing
\* called, nothing found
Fresh(run) ==
    /\ run.pc = "describe"
    /\ run.page = 1
    /\ run.calls = <<>>
    /\ run.found = <<>>
    /\ run.collected = 0
    /\ ~run.aborted
    /\ \E order \in Orders(TagKeys(cfg.Targets)) : run.filters = buildFilters(cfg, order)

\* C30 (SpecSched): in cron mode the failure of a page ends the cycle that asked for it
\* and nothing else: that goroutine leaves RunCheck, the other cycles of the process,
\* the fleet, the process and its scheduler are as before. A process in which a
\* retrieval has failed, unless a signal cancelled it, keeps its scheduler started and
\* a tick can start its job; every cycle a goroutine enters, after a failure as before
\* one, starts from nothing and its first step is the request for the first page.
C30_RetrievalFailureAbortsCycleOnly ==
    /\ [](\A r \in retrievalFailed :
              /\ Running(r)
              /\ \A s \in Slots : runs[r][s].pc # "panic"
              /\ FreeSlots(r) # {} => ENABLED Tick)
    /\ [][\A r \in Replicas :
             /\ (r \notin retrievalFailed /\ r \in retrievalFailed') =>
                    \E s \in Slots :
                        /\ runs[r][s].pc = "describe"
                        /\ runs'[r][s] = IdleRun
                        /\ \A t \in Slots \ {s} : runs'[r][t] = runs[r][t]
                        /\ fleetState' = fleetState
                        /\ proc'[r] = proc[r]
                        /\ sched'[r] = IF s = 0 THEN "waiting" ELSE sched[r]
             /\ runs'[r] # runs[r] =>
                    \A s \in Slots :
                        runs'[r][s] # runs[r][s] =>
                            /\ runs[r][s].pc = "idle" => Fresh(runs'[r][s])
                            /\ (Fresh(runs[r][s]) /\ runs'[r][s].pc # "idle") =>
                                   /\ runs'[r][s].calls # <<>>
                                   /\ Head(runs'[r][s].calls) =
                                          Call("DescribeInstances", 1, TRUE)]_vars

\* a retrieval failed in a process that goes on: its immediate cycle is over, it waits
\* on its context, and the job a tick started has fetched its first page anew
C30_Witness ==
    \E r \in retrievalFailed :
        /\ proc[r] \in {"cron", "leading"}
        /\ sched[r] = "waiting"
        /\ runs[r][0] = IdleRun
        /\ runs[r][1].pc = "describe"
        /\ runs[r][1].page = 2
        /\ runs[r][1].calls = <<Call("DescribeInstances", 1, TRUE)>>


\* whether filepath.Match has an ErrBadPattern in store for the pattern p from p[i] on
RECURSIVE MalformedFrom(_, _)
MalformedFrom(p, i) ==
    IF i > Len(p) THEN FALSE
    ELSE IF p[i] = "[" THEN
        LET negated == i + 1 <= Len(p) /\ p[i + 1] = "^"
            class == ClassScan(p, IF negated THEN i + 2 ELSE i + 1, "a", 0, FALSE)
        IN  class.bad \/ MalformedFrom(p, class.next)
    ELSE IF p[i] = "\\" THEN i + 1 > Len(p) \/ MalformedFrom(p, i + 2)
    ELSE MalformedFrom(p, i + 1)

\* the file is there and is a JSON array, and one of its policies has a threshold
\* that is no number or a name that is no glob pattern
ConfigError(e) ==
    /\ e.file.exists
    /\ e.file.valid
    /\ \E i \in 1..Len(e.file.targets) :
           \/ e.file.targets[i].maxRuntimeHours.kind = "string"
           \/ MalformedFrom(Chars(e.file.targets[i].name), 1)

\* C31 (SpecLoad): with a policy of the configuration file in error (a threshold that
\* is no number, a malformed glob as name), the process gets no further than loading:
\* it holds no configuration, is in no cycle and has made no provider call.
C31_ConfigErrorIsFatal ==
    ConfigError(environ) =>
        /\ proc[1] \in {"boot", "exited"}
        /\ cfg = ZeroConfig
        /\ \A run \in AllRuns : run = IdleRun


\* C32 (SpecLoad): a process started with DRY_RUN not set in its environment holds,
\* once loaded, a configuration with DryRun true, and none of its cycles makes a
\* TerminateInstances call.
C32_UnsetDryRunNeverTerminates ==
    ~environ.DRY_RUN.set =>
        /\ proc[1] \notin {"boot", "exited"} => cfg.DryRun
        /\ \A run \in AllRuns : CallsOf(run, "TerminateInstances") = <<>>

\* DRY_RUN not set, and a finished cycle that has listed each of its violations
C32_Witness ==
    /\ ~environ.DRY_RUN.set
    /\ cfg.DryRun
    /\ runs[1][0].pc = "done"
    /\ runs[1][0].found # <<>>
    /\ Len(EntriesOf(runs[1][0], "instance")) = Len(runs[1][0].found)
    /\ CallsOf(runs[1][0], "TerminateInstances") = <<>>


\* what the provider has answered to the calls of a cycle, in order
Responses(run) == [k \in 1..Len(run.calls) |-> <<run.calls[k].op, run.calls[k].ok>>]

\* two cycles at the same point of RunCheck
SamePoint(a, b) == a.pc = b.pc /\ a.page = b.page /\ a.idx = b.idx

\* what a cycle has produced: everything it holds but the order of the clauses of its
\* filter
Produced(run) == [run EXCEPT !.filters = <<>>]

Loadable(e) ==
    /\ e.AWS_REGION.set
    /\ e.CONFIG_PATH.set
    /\ ~e.DRY_RUN.set \/ ~ParseBool(e.DRY_RUN.value).err
    /\ e.file.exists
    /\ e.file.valid
    /\ \A i \in 1..Len(e.file.targets) : e.file.targets[i].maxRuntimeHours.kind # "string"

\* the instance matches, as the first policy it matches, one whose threshold is zero
\* or less, and has run for a strictly positive time
PositiveUnderNonPositive(instance, Targets) ==
    LET f == FirstMatch(instance, Targets)
    IN  /\ f # 0
        /\ Targets[f].MaxRuntimeHours <= 0
        /\ instance.runtime.h > 0 \/ instance.runtime.ns > 0

\* C34 (SpecLoad): config.Load accepts a policy whose maxRuntimeHours is zero or less
\* and keeps the number as it stands; checkInstanceRuntime flags every instance of
\* strictly positive runtime whose first matching policy is such a policy, and a
\* cycle that has retrieved every page holds each such instance in its violation list.
C34_NonPositiveThresholdFlagsAll ==
    /\ Loadable(environ) =>
           /\ ~Load(environ).err
           /\ pstage \in {"loaded", "checked"} =>
                  /\ Len(cfg.Targets) = Len(environ.file.targets)
                  /\ \A i \in 1..Len(cfg.Targets) :
                         cfg.Targets[i].MaxRuntimeHours =
                             environ.file.targets[i].maxRuntimeHours.num
    /\ (pstage = "checked" /\ PositiveUnderNonPositive(inst, cfg.Targets))
           => verdict = "flagged"
    /\ \A run \in AllRuns :
           (run.pc \in {"process", "notify", "done"} /\ PagesFetched(run) = NumPages) =>
               LET fetched == Retrieved(run, NumPages)
               IN  \A k \in 1..Len(fetched) :
                       PositiveUnderNonPositive(fetched[k], cfg.Targets)
                           => fetched[k].id \in Range(Ids(run.found))

\* a policy of threshold zero has flagged an instance launched one nanosecond ago, and
\* the cycle under it has finished with every instance of the fleet as a violation
C34_Witness ==
    /\ pstage = "checked"
    /\ environ.file.targets[1].maxRuntimeHours = JNumber(0)
    /\ cfg.Targets[1].MaxRuntimeHours = 0
    /\ cfg.Targets[1].Name = ""
    /\ inst.runtime = [h |-> 0, ns |-> 1]
    /\ verdict = "flagged"
    /\ runs[1][0].pc = "done"
    /\ Len(runs[1][0].found) = NumInstances


\* C35 (Spec): the calls of a cycle begin with its DescribeInstances calls, one per
\* page in page order, each made after the one before has succeeded; and the cycle
\* is in its loop over the violations, has listed an instance or has made a
\* TerminateInstances call only with every page of the listing fetched.
C35_RetrievalBeforeRemediation ==
    \A run \in AllRuns :
        LET pages == CallsOf(run, "DescribeInstances")
        IN  /\ \A k \in 1..Len(pages) :
                   /\ run.calls[k] = pages[k]
                   /\ pages[k].arg = k
                   /\ k < Len(pages) => pages[k].ok
            /\ (\/ run.pc = "process"
                \/ EntriesOf(run, "instance") # <<>>
                \/ CallsOf(run, "TerminateInstances") # <<>>)
                   => /\ Len(pages) = NumPages
                      /\ pages[NumPages].ok

\* a cycle in its loop over the violations, its first termination call made, after a
\* listing of more than one page whose first page already held a violation
C35_Witness ==
    LET run == runs[1][0]
    IN  /\ run.pc = "process"
        /\ NumPages >= 2
        /\ Len(CallsOf(run, "DescribeInstances")) = NumPages
        /\ Len(CallsOf(run, "TerminateInstances")) = 1
        /\ run.found[1].id \in {1, 2}
        /\ run.calls[NumPages + 1].op = "TerminateInstances"


\* C36 (SpecSched): the step by which a process enters runSimpleScheduler, from
\* runCronMode or, with the election, from OnStartedLeading as the holder of the lease,
\* leaves its scheduler started and its main goroutine inside a RunCheck just entered,
\* which no tick has started; that cycle is the first of the process, and main is in it
\* exactly until it blocks on ctx.Done().
C36_ImmediateCycleOnStart ==
    /\ [][\A r \in Replicas :
              (sched[r] = "none" /\ sched'[r] # "none") =>
                  /\ proc[r] = IF cfg.LeaderElectionEnabled THEN "leading" ELSE "cron"
                  /\ cfg.LeaderElectionEnabled => lease = r
                  /\ sched'[r] = "immediate"
                  /\ Fresh(runs'[r][0])
                  /\ Running(r)'
                  /\ \A s \in 1..MaxJobs : runs'[r][s] = runs[r][s]]_vars
    /\ [](\A r \in Replicas :
              /\ runs[r][0].pc # "idle" <=> sched[r] = "immediate"
              /\ \A s \in 1..MaxJobs : runs[r][s].pc # "idle" => sched[r] # "none")

\* a leader in its immediate cycle, the first page fetched, while a job that a tick of
\* the already started scheduler has begun runs beside it
C36_Witness ==
    \E r \in Replicas :
        /\ cfg.LeaderElectionEnabled
        /\ lease = r
        /\ proc[r] = "leading"
        /\ sched[r] = "immediate"
        /\ Len(CallsOf(runs[r][0], "DescribeInstances")) = 1
        /\ runs[r][1].pc # "idle"


====
